---- MODULE Spec2Model ----
(***************************************************************************)
(* A model of sul::dynamic_bitset<Block, Allocator>                        *)
(* (include/sul/dynamic_bitset.hpp).                                       *)
(*                                                                         *)
(* A bitset is the record [m_blocks, m_bits_number] of the class's two     *)
(* data members.  m_blocks is the std::vector of blocks, a sequence of     *)
(* naturals below 2^bits_per_block; block i of the code is m_blocks[i+1]   *)
(* here.  Every block expression is reduced modulo 2^bits_per_block where  *)
(* the code stores it into a block_type, and size_type arithmetic that can *)
(* wrap is reduced modulo 2^size_type_digits.                              *)
(***************************************************************************)
EXTENDS Integers, Sequences, FiniteSets, TLC

(* Width of Block (std::numeric_limits<block_type>::digits), reduced. *)
bits_per_block == 3

(* Width of size_type (size_t), reduced. *)
size_type_digits == 5

(* sizeof(unsigned long long) / sizeof(block_type), reduced. *)
init_val_required_blocks == 2

(* Largest number of bits a modelled bitset holds. *)
MaxBits == 7

(* Largest number of bits of the operands compared in SpecOrder. *)
MaxOrderBits == 5

VARIABLES
    a,      \* the bitset the operations are called on (*this, lhs)
    b,      \* the second bitset: rhs of a comparison, destination of a move
    pre,    \* the value of a when the last operation was called
    str,    \* the string a codec operation reads or produces
    op,     \* the name of the last operation
    arg,    \* the argument of the last operation
    ret     \* what the last operation returned

vars == <<a, b, pre, str, op, arg, ret>>

----------------------------------------------------------------------------
(* Block arithmetic *)

RECURSIVE Pow2(_)
Pow2(n) == IF n <= 0 THEN 1 ELSE 2 * Pow2(n - 1)

BlockMod == Pow2(bits_per_block)

SizeMod == Pow2(size_type_digits)

npos == SizeMod - 1

zero_block == 0

one_block == BlockMod - 1

block_last_bit_index == bits_per_block - 1

(* block_type(x): conversion of an integer expression to block_type. *)
ToBlock(x) == x % BlockMod

(* size_type(x): unsigned wrap-around of size_type arithmetic. *)
ToSize(x) == x % SizeMod

RECURSIVE BitAnd(_, _)
BitAnd(x, y) ==
    IF x = 0 \/ y = 0 THEN 0
    ELSE (x % 2) * (y % 2) + 2 * BitAnd(x \div 2, y \div 2)

RECURSIVE BitOr(_, _)
BitOr(x, y) ==
    IF x = 0 THEN y
    ELSE IF y = 0 THEN x
    ELSE (IF x % 2 = 1 \/ y % 2 = 1 THEN 1 ELSE 0) + 2 * BitOr(x \div 2, y \div 2)

RECURSIVE BitXor(_, _)
BitXor(x, y) ==
    IF x = 0 THEN y
    ELSE IF y = 0 THEN x
    ELSE ((x + y) % 2) + 2 * BitXor(x \div 2, y \div 2)

(* ~x stored into a block_type *)
BitNot(x) == one_block - x

(* x << n and x >> n on block_type values; the left shift is stored into a
   block_type, so the bits shifted past the top are dropped *)
Shl(x, n) == ToBlock(x * Pow2(n))

Shr(x, n) == x \div Pow2(n)

----------------------------------------------------------------------------
(* Bit addressing *)

blocks_required(nbits) ==
    (nbits \div bits_per_block) + (IF nbits % bits_per_block > 0 THEN 1 ELSE 0)

block_index(pos) == pos \div bits_per_block

bit_index(pos) == pos % bits_per_block

bit_mask(pos) == Shl(1, bit_index(pos))

(* bit_mask(first, last) taking every last for the last bit of the block *)
bit_mask_to_block_end(first, last) == Shl(one_block, bit_index(first))

bit_mask_range(first, last) ==
    LET f == bit_index(first)
        l == bit_index(last)
    IN  IF l = block_last_bit_index
        THEN Shl(one_block, f)
        ELSE ToBlock(BitXor(ToBlock(Shl(1, l + 1) - 1), ToBlock(Shl(1, f) - 1)))

set_block_bits(block, first, last, val) ==
    IF val THEN BitOr(block, bit_mask_range(first, last))
    ELSE BitAnd(block, BitNot(bit_mask_range(first, last)))

flip_block_bits(block, first, last) == BitXor(block, bit_mask_range(first, last))

----------------------------------------------------------------------------
(* Accessors *)

Bitset(blocks, nbits) == [m_blocks |-> blocks, m_bits_number |-> nbits]

size(v) == v.m_bits_number

num_blocks(v) == Len(v.m_blocks)

empty(v) == size(v) = 0

(* m_blocks[i] *)
Block(v, i) == v.m_blocks[i + 1]

last_block(v) == v.m_blocks[Len(v.m_blocks)]

extra_bits_number(v) == bit_index(v.m_bits_number)

unused_bits_number(v) == bits_per_block - extra_bits_number(v)

SetBlock(v, i, x) == [v EXCEPT !.m_blocks[i + 1] = x]

(* sanitize that leaves the unused bits as they are *)
sanitize_skipped(v) == v

sanitize(v) ==
    LET shift == v.m_bits_number % bits_per_block
    IN  IF shift > 0
        THEN SetBlock(v, num_blocks(v) - 1,
                      BitAnd(last_block(v), BitNot(Shl(one_block, shift))))
        ELSE v

check_unused_bits(v) ==
    LET extra_bits == extra_bits_number(v)
    IN  IF extra_bits > 0
        THEN BitAnd(last_block(v), Shl(one_block, extra_bits)) = zero_block
        ELSE TRUE

check_size(v) == blocks_required(size(v)) = num_blocks(v)

check_consistency(v) == check_unused_bits(v) /\ check_size(v)

test(v, pos) == BitAnd(Block(v, block_index(pos)), bit_mask(pos)) # zero_block

----------------------------------------------------------------------------
(* Single-bit, ranged and whole-vector writers *)

(* set(pos, value) *)
set_bit(v, pos, value) ==
    IF value
    THEN SetBlock(v, block_index(pos), BitOr(Block(v, block_index(pos)), bit_mask(pos)))
    ELSE SetBlock(v, block_index(pos),
                  BitAnd(Block(v, block_index(pos)), BitNot(bit_mask(pos))))

(* reset(pos) *)
reset_bit(v, pos) == set_bit(v, pos, FALSE)

(* flip(pos) *)
flip_bit(v, pos) ==
    SetBlock(v, block_index(pos), BitXor(Block(v, block_index(pos)), bit_mask(pos)))

(* set(pos, len, value) *)
set_range(v, pos, len, value) ==
    IF len = 0 THEN v
    ELSE
    LET first_block == block_index(pos)
        last_blk == block_index(pos + len - 1)
        first_bit_index == bit_index(pos)
        last_bit_index == bit_index(pos + len - 1)
    IN  IF first_block = last_blk
        THEN SetBlock(v, first_block,
                 set_block_bits(Block(v, first_block), first_bit_index, last_bit_index, value))
        ELSE
        LET first_full_block == IF first_bit_index # 0 THEN first_block + 1 ELSE first_block
            last_full_block == IF last_bit_index # block_last_bit_index
                               THEN last_blk - 1 ELSE last_blk
            v1 == IF first_bit_index # 0
                  THEN SetBlock(v, first_block,
                           set_block_bits(Block(v, first_block), first_bit_index,
                                          block_last_bit_index, value))
                  ELSE v
            v2 == IF last_bit_index # block_last_bit_index
                  THEN SetBlock(v1, last_blk,
                           set_block_bits(Block(v1, last_blk), 0, last_bit_index, value))
                  ELSE v1
            full_block == IF value THEN one_block ELSE zero_block
        IN  [v2 EXCEPT !.m_blocks =
                [i \in 1..Len(v2.m_blocks) |->
                    IF first_full_block <= i - 1 /\ i - 1 <= last_full_block
                    THEN full_block ELSE v2.m_blocks[i]]]

(* reset(pos, len) *)
reset_range(v, pos, len) == set_range(v, pos, len, FALSE)

(* flip(pos, len) *)
flip_range(v, pos, len) ==
    IF len = 0 THEN v
    ELSE
    LET first_block == block_index(pos)
        last_blk == block_index(pos + len - 1)
        first_bit_index == bit_index(pos)
        last_bit_index == bit_index(pos + len - 1)
    IN  IF first_block = last_blk
        THEN SetBlock(v, first_block,
                 flip_block_bits(Block(v, first_block), first_bit_index, last_bit_index))
        ELSE
        LET first_full_block == IF first_bit_index # 0 THEN first_block + 1 ELSE first_block
            last_full_block == IF last_bit_index # block_last_bit_index
                               THEN last_blk - 1 ELSE last_blk
            v1 == IF first_bit_index # 0
                  THEN SetBlock(v, first_block,
                           flip_block_bits(Block(v, first_block), first_bit_index,
                                           block_last_bit_index))
                  ELSE v
            v2 == IF last_bit_index # block_last_bit_index
                  THEN SetBlock(v1, last_blk,
                           flip_block_bits(Block(v1, last_blk), 0, last_bit_index))
                  ELSE v1
        IN  [v2 EXCEPT !.m_blocks =
                [i \in 1..Len(v2.m_blocks) |->
                    IF first_full_block <= i - 1 /\ i - 1 <= last_full_block
                    THEN BitNot(v2.m_blocks[i]) ELSE v2.m_blocks[i]]]

(* set(): std::fill with one_block, then sanitize *)
set_all(v) ==
    sanitize([v EXCEPT !.m_blocks = [i \in 1..Len(v.m_blocks) |-> one_block]])

(* reset(): std::fill with zero_block *)
reset_all(v) == [v EXCEPT !.m_blocks = [i \in 1..Len(v.m_blocks) |-> zero_block]]

(* flip(): std::transform with std::bit_not, then sanitize *)
(* flip() without the sanitize() after the blocks are inverted *)
flip_all_unsanitized(v) ==
    [v EXCEPT !.m_blocks = [i \in 1..Len(v.m_blocks) |-> BitNot(v.m_blocks[i])]]

flip_all(v) ==
    sanitize([v EXCEPT !.m_blocks = [i \in 1..Len(v.m_blocks) |-> BitNot(v.m_blocks[i])]])

(* operator~ : flip() on a copy *)
op_not(v) == flip_all(v)

----------------------------------------------------------------------------
(* Block storage *)

(* std::vector::resize(n, x) *)
VectorResize(blocks, n, x) ==
    [i \in 1..n |-> IF i <= Len(blocks) THEN blocks[i] ELSE x]

(* resize that gives the value to the new blocks only, not to the new bits
   of the old last block *)
resize_new_blocks_only(v, nbits, value) ==
    IF nbits = v.m_bits_number THEN v
    ELSE
    LET old_num_blocks == num_blocks(v)
        new_num_blocks == blocks_required(nbits)
        init_value == IF value THEN one_block ELSE zero_block
        v1 == IF new_num_blocks # old_num_blocks
              THEN [v EXCEPT !.m_blocks = VectorResize(v.m_blocks, new_num_blocks, init_value)]
              ELSE v
    IN  sanitize([v1 EXCEPT !.m_bits_number = nbits])

resize(v, nbits, value) ==
    IF nbits = v.m_bits_number THEN v
    ELSE
    LET old_num_blocks == num_blocks(v)
        new_num_blocks == blocks_required(nbits)
        init_value == IF value THEN one_block ELSE zero_block
        v1 == IF new_num_blocks # old_num_blocks
              THEN [v EXCEPT !.m_blocks = VectorResize(v.m_blocks, new_num_blocks, init_value)]
              ELSE v
        extra_bits == extra_bits_number(v1)
        v2 == IF value /\ nbits > v.m_bits_number /\ old_num_blocks > 0 /\ extra_bits > 0
              THEN SetBlock(v1, old_num_blocks - 1,
                       BitOr(Block(v1, old_num_blocks - 1), Shl(init_value, extra_bits)))
              ELSE v1
    IN  sanitize([v2 EXCEPT !.m_bits_number = nbits])

clear(v) == Bitset(<<>>, 0)

(* push_back that leaves the new bit of an existing block as it is *)
push_back_without_set(v, value) ==
    LET v1 == [v EXCEPT !.m_bits_number = v.m_bits_number + 1]
    IN  IF v1.m_bits_number <= Len(v1.m_blocks) * bits_per_block
        THEN v1
        ELSE [v1 EXCEPT !.m_blocks = Append(v1.m_blocks, IF value THEN 1 ELSE 0)]

push_back(v, value) ==
    LET new_last_bit == v.m_bits_number
        v1 == [v EXCEPT !.m_bits_number = v.m_bits_number + 1]
    IN  IF v1.m_bits_number <= Len(v1.m_blocks) * bits_per_block
        THEN IF value THEN set_bit(v1, new_last_bit, value) ELSE v1
        ELSE [v1 EXCEPT !.m_blocks = Append(v1.m_blocks, IF value THEN 1 ELSE 0)]

(* pop_back without the sanitize() of the branch that keeps the block *)
pop_back_unsanitized(v) ==
    IF empty(v) THEN v
    ELSE
    LET v1 == [v EXCEPT !.m_bits_number = v.m_bits_number - 1]
    IN  IF Len(v1.m_blocks) > blocks_required(v1.m_bits_number)
        THEN [v1 EXCEPT !.m_blocks = SubSeq(v1.m_blocks, 1, Len(v1.m_blocks) - 1)]
        ELSE v1

pop_back(v) ==
    IF empty(v) THEN v
    ELSE
    LET v1 == [v EXCEPT !.m_bits_number = v.m_bits_number - 1]
    IN  IF Len(v1.m_blocks) > blocks_required(v1.m_bits_number)
        THEN [v1 EXCEPT !.m_blocks = SubSeq(v1.m_blocks, 1, Len(v1.m_blocks) - 1)]
        ELSE sanitize(v1)

(* append(block_type block) pushing the block as it is whatever the
   alignment *)
append_unshifted(v, block) ==
    [v EXCEPT !.m_blocks = Append(v.m_blocks, block),
              !.m_bits_number = v.m_bits_number + bits_per_block]

(* append(block_type block) *)
append(v, block) ==
    LET extra_bits == extra_bits_number(v)
        v1 == IF extra_bits = 0
              THEN [v EXCEPT !.m_blocks = Append(v.m_blocks, block)]
              ELSE LET w == SetBlock(v, num_blocks(v) - 1,
                                BitOr(last_block(v), Shl(block, extra_bits)))
                   IN  [w EXCEPT !.m_blocks =
                           Append(w.m_blocks, Shr(block, bits_per_block - extra_bits))]
    IN  [v1 EXCEPT !.m_bits_number = v.m_bits_number + bits_per_block]

(* the while loop of append(first, last): w is the bitset, block the carry,
   rest the blocks from first to last *)
RECURSIVE append_loop(_, _, _, _, _)
append_loop(w, block, rest, extra_bits, unused_bits) ==
    IF rest = <<>>
    THEN [w EXCEPT !.m_blocks = Append(w.m_blocks, block),
                   !.m_bits_number = w.m_bits_number + bits_per_block]
    ELSE LET blk == BitOr(block, Shl(Head(rest), extra_bits))
         IN  append_loop([w EXCEPT !.m_blocks = Append(w.m_blocks, blk),
                                   !.m_bits_number = w.m_bits_number + bits_per_block],
                         Shr(Head(rest), unused_bits), Tail(rest),
                         extra_bits, unused_bits)

(* append(first, last) and append(std::initializer_list) *)
append_range(v, blocks) ==
    IF blocks = <<>> THEN v
    ELSE
    LET extra_bits == extra_bits_number(v)
        unused_bits == unused_bits_number(v)
    IN  IF extra_bits = 0
        THEN [v EXCEPT !.m_blocks = v.m_blocks \o blocks,
                       !.m_bits_number = v.m_bits_number + Len(blocks) * bits_per_block]
        ELSE LET w == SetBlock(v, num_blocks(v) - 1,
                          BitOr(last_block(v), Shl(Head(blocks), extra_bits)))
             IN  append_loop(w, Shr(Head(blocks), unused_bits), Tail(blocks),
                             extra_bits, unused_bits)

(* swap: the pair (this, other) after the call *)
swap(v, other) == <<other, v>>

----------------------------------------------------------------------------
(* Whole-vector binary operators *)

(* operator&= *)
and_assign(v, rhs) ==
    [v EXCEPT !.m_blocks =
        [i \in 1..Len(v.m_blocks) |-> BitAnd(v.m_blocks[i], rhs.m_blocks[i])]]

(* operator|= *)
or_assign(v, rhs) ==
    [v EXCEPT !.m_blocks =
        [i \in 1..Len(v.m_blocks) |-> BitOr(v.m_blocks[i], rhs.m_blocks[i])]]

(* operator^= *)
xor_assign(v, rhs) ==
    [v EXCEPT !.m_blocks =
        [i \in 1..Len(v.m_blocks) |-> BitXor(v.m_blocks[i], rhs.m_blocks[i])]]

(* operator-= keeping the bits that only one of the two has *)
sub_assign_as_xor(v, rhs) ==
    [v EXCEPT !.m_blocks =
        [i \in 1..Len(v.m_blocks) |-> BitXor(v.m_blocks[i], rhs.m_blocks[i])]]

(* operator-= *)
sub_assign(v, rhs) ==
    [v EXCEPT !.m_blocks =
        [i \in 1..Len(v.m_blocks) |-> BitAnd(v.m_blocks[i], BitNot(rhs.m_blocks[i]))]]

----------------------------------------------------------------------------
(* Shifts *)

(* the loop of apply_left_shift for bits_offset == 0; i counts down as an
   unsigned size_type *)
RECURSIVE left_shift_blocks(_, _, _)
left_shift_blocks(m, i, blocks_shift) ==
    IF i >= blocks_shift
    THEN left_shift_blocks([m EXCEPT ![i + 1] = m[i - blocks_shift + 1]],
                           ToSize(i - 1), blocks_shift)
    ELSE m

(* the loop of apply_left_shift for bits_offset != 0 *)
RECURSIVE left_shift_bits(_, _, _, _)
left_shift_bits(m, i, blocks_shift, bits_offset) ==
    IF i > blocks_shift
    THEN left_shift_bits(
             [m EXCEPT ![i + 1] =
                 ToBlock(BitOr(Shl(m[i - blocks_shift + 1], bits_offset),
                               Shr(m[i - blocks_shift - 1 + 1],
                                   bits_per_block - bits_offset)))],
             ToSize(i - 1), blocks_shift, bits_offset)
    ELSE m

(* std::fill(first, last, x) on block indexes [first, last) *)
Fill(m, first, last, x) ==
    [i \in 1..Len(m) |-> IF first <= i - 1 /\ i - 1 < last THEN x ELSE m[i]]

apply_left_shift(v, shift) ==
    LET blocks_shift == shift \div bits_per_block
        bits_offset == shift % bits_per_block
        m == v.m_blocks
        m1 == IF bits_offset = 0
              THEN left_shift_blocks(m, ToSize(Len(m) - 1), blocks_shift)
              ELSE LET m0 == left_shift_bits(m, ToSize(Len(m) - 1), blocks_shift, bits_offset)
                   IN  [m0 EXCEPT ![blocks_shift + 1] = Shl(m0[1], bits_offset)]
    IN  [v EXCEPT !.m_blocks = Fill(m1, 0, blocks_shift, zero_block)]

(* the loop of apply_right_shift for bits_offset == 0 *)
RECURSIVE right_shift_blocks(_, _, _, _)
right_shift_blocks(m, i, last_block_to_shift, blocks_shift) ==
    IF i <= last_block_to_shift
    THEN right_shift_blocks([m EXCEPT ![i + 1] = m[i + blocks_shift + 1]],
                            i + 1, last_block_to_shift, blocks_shift)
    ELSE m

(* the loop of apply_right_shift for bits_offset != 0 without the bits that
   come down from the next block *)
RECURSIVE right_shift_bits_no_carry(_, _, _, _, _)
right_shift_bits_no_carry(m, i, last_block_to_shift, blocks_shift, bits_offset) ==
    IF i < last_block_to_shift
    THEN right_shift_bits_no_carry(
             [m EXCEPT ![i + 1] = ToBlock(Shr(m[i + blocks_shift + 1], bits_offset))],
             i + 1, last_block_to_shift, blocks_shift, bits_offset)
    ELSE m

(* the loop of apply_right_shift for bits_offset != 0 *)
RECURSIVE right_shift_bits(_, _, _, _, _)
right_shift_bits(m, i, last_block_to_shift, blocks_shift, bits_offset) ==
    IF i < last_block_to_shift
    THEN right_shift_bits(
             [m EXCEPT ![i + 1] =
                 ToBlock(BitOr(Shr(m[i + blocks_shift + 1], bits_offset),
                               Shl(m[i + blocks_shift + 1 + 1],
                                   bits_per_block - bits_offset)))],
             i + 1, last_block_to_shift, blocks_shift, bits_offset)
    ELSE m

apply_right_shift(v, shift) ==
    LET blocks_shift == shift \div bits_per_block
        bits_offset == shift % bits_per_block
        m == v.m_blocks
        last_block_to_shift == ToSize(Len(m) - blocks_shift - 1)
        m1 == IF bits_offset = 0
              THEN right_shift_blocks(m, 0, last_block_to_shift, blocks_shift)
              ELSE LET m0 == right_shift_bits(m, 0, last_block_to_shift, blocks_shift,
                                              bits_offset)
                   IN  [m0 EXCEPT ![last_block_to_shift + 1] =
                           Shr(m0[Len(m0)], bits_offset)]
    IN  [v EXCEPT !.m_blocks = Fill(m1, last_block_to_shift + 1, Len(m1), zero_block)]

(* operator<<= without the sanitize() after apply_left_shift *)
shl_assign_unsanitized(v, shift) ==
    IF shift # 0
    THEN IF shift >= v.m_bits_number
         THEN reset_all(v)
         ELSE apply_left_shift(v, shift)
    ELSE v

(* operator<<= *)
shl_assign(v, shift) ==
    IF shift # 0
    THEN IF shift >= v.m_bits_number
         THEN reset_all(v)
         ELSE sanitize(apply_left_shift(v, shift))
    ELSE v

(* operator>>= *)
shr_assign(v, shift) ==
    IF shift # 0
    THEN IF shift >= v.m_bits_number
         THEN reset_all(v)
         ELSE apply_right_shift(v, shift)
    ELSE v

(* operator<< : <<= on a copy *)
op_shl(v, shift) == shl_assign(v, shift)

(* operator>> : >>= on a copy *)
op_shr(v, shift) == shr_assign(v, shift)

----------------------------------------------------------------------------
(* Queries.  build names the compile-time path: "libpopcnt"
   (DYNAMIC_BITSET_USE_LIBPOPCNT), "builtin" (the GCC / Clang intrinsics) or
   "portable" (the loops). *)

Builds == {"libpopcnt", "builtin", "portable"}

(* popcnt / __builtin_popcount: the number of one bits of x *)
RECURSIVE Popcount(_)
Popcount(x) == IF x = 0 THEN 0 ELSE (x % 2) + Popcount(x \div 2)

(* __builtin_ctz / _BitScanForward: the number of trailing zero bits of x # 0 *)
RECURSIVE Ctz(_)
Ctz(x) == IF x % 2 = 1 THEN 0 ELSE 1 + Ctz(x \div 2)

(* the loop of block_count: mask walks up from 1, stored in a block_type *)
RECURSIVE block_count_loop(_, _, _, _)
block_count_loop(block, mask, i, nbits) ==
    IF i < nbits
    THEN (IF BitAnd(block, mask) # zero_block THEN 1 ELSE 0)
         + block_count_loop(block, Shl(mask, 1), i + 1, nbits)
    ELSE 0

(* block_count(block) whose loop starts at the second bit *)
block_count_from_second_bit(block, build) ==
    IF block = zero_block THEN 0
    ELSE IF build = "portable" THEN block_count_loop(block, Shl(1, 1), 1, bits_per_block)
    ELSE Popcount(block)

(* block_count(block) *)
block_count(block, build) ==
    IF block = zero_block THEN 0
    ELSE IF build = "portable" THEN block_count_loop(block, 1, 0, bits_per_block)
    ELSE Popcount(block)

(* block_count(block, nbits) shifting the block by nbits, not by
   bits_per_block - nbits *)
block_count_n_wrong_shift(block, nbits, build) ==
    IF block = zero_block THEN 0
    ELSE IF build = "portable" THEN block_count_loop(block, 1, 0, nbits)
    ELSE Popcount(Shl(block, nbits))

(* block_count(block, nbits) *)
block_count_n(block, nbits, build) ==
    IF block = zero_block THEN 0
    ELSE IF build = "portable" THEN block_count_loop(block, 1, 0, nbits)
    ELSE Popcount(Shl(block, bits_per_block - nbits))

RECURSIVE SumBlocks(_, _, _)
SumBlocks(m, n, build) ==
    IF n = 0 THEN 0 ELSE SumBlocks(m, n - 1, build) + block_count(m[n], build)

RECURSIVE PopcntBuffer(_, _)
PopcntBuffer(m, n) == IF n = 0 THEN 0 ELSE PopcntBuffer(m, n - 1) + Popcount(m[n])

count(v, build) ==
    IF empty(v) THEN 0
    ELSE IF build = "libpopcnt" THEN PopcntBuffer(v.m_blocks, Len(v.m_blocks))
    ELSE LET full == SumBlocks(v.m_blocks, Len(v.m_blocks) - 1, build)
             block == last_block(v)
             extra_bits == extra_bits_number(v)
         IN  IF block # zero_block
             THEN IF extra_bits = 0
                  THEN full + block_count(block, build)
                  ELSE full + block_count_n(block, extra_bits, build)
             ELSE full

(* the loop of first_on *)
RECURSIVE first_on_loop(_, _, _)
first_on_loop(block, mask, i) ==
    IF i < bits_per_block
    THEN IF BitAnd(block, mask) # zero_block THEN i
         ELSE first_on_loop(block, Shl(mask, 1), i + 1)
    ELSE npos

first_on(block, build) ==
    IF build = "portable" THEN first_on_loop(block, 1, 0) ELSE Ctz(block)

(* the block scan of find_first and find_next, from block index i *)
RECURSIVE find_from_block(_, _, _)
find_from_block(v, i, build) ==
    IF i < Len(v.m_blocks)
    THEN IF Block(v, i) # zero_block
         THEN i * bits_per_block + first_on(Block(v, i), build)
         ELSE find_from_block(v, i + 1, build)
    ELSE npos

find_first(v, build) == find_from_block(v, 0, build)

(* find_next looking at the first block without shifting it down to
   first_bit *)
find_next_unshifted(v, prev, build) ==
    IF empty(v) \/ prev >= ToSize(size(v) - 1) THEN npos
    ELSE
    LET first_bit == ToSize(prev + 1)
        first_block == block_index(first_bit)
        first_block_shifted == Block(v, first_block)
    IN  IF first_block_shifted # zero_block
        THEN first_bit + first_on(first_block_shifted, build)
        ELSE find_from_block(v, first_block + 1, build)

find_next(v, prev, build) ==
    IF empty(v) \/ prev >= ToSize(size(v) - 1) THEN npos
    ELSE
    LET first_bit == ToSize(prev + 1)
        first_block == block_index(first_bit)
        first_bit_index == bit_index(first_bit)
        first_block_shifted == ToBlock(Shr(Block(v, first_block), first_bit_index))
    IN  IF first_block_shifted # zero_block
        THEN first_bit + first_on(first_block_shifted, build)
        ELSE find_from_block(v, first_block + 1, build)

(* all() comparing every block, the last one included, with a full block *)
all_full_blocks(v) ==
    IF empty(v) THEN TRUE
    ELSE \A i \in 1..Len(v.m_blocks) : v.m_blocks[i] = one_block

all(v) ==
    IF empty(v) THEN TRUE
    ELSE IF extra_bits_number(v) = 0
    THEN \A i \in 1..Len(v.m_blocks) : v.m_blocks[i] = one_block
    ELSE /\ \A i \in 1..(Len(v.m_blocks) - 1) : v.m_blocks[i] = one_block
         /\ last_block(v) = Shr(one_block, unused_bits_number(v))

any(v) == \E i \in 1..Len(v.m_blocks) : v.m_blocks[i] # zero_block

none(v) == ~any(v)

----------------------------------------------------------------------------
(* Comparison *)

(* operator== *)
op_eq(lhs, rhs) ==
    (lhs.m_bits_number = rhs.m_bits_number) /\ (lhs.m_blocks = rhs.m_blocks)

(* operator!= *)
op_ne(lhs, rhs) == ~op_eq(lhs, rhs)

(* the loops "for(i = n - 1; i > 0; --i)" of operator<, i an unsigned
   size_type: the first block index above 0, from i down, where lhs and rhs
   differ, or 0 when the loop runs to its end *)
RECURSIVE first_difference(_, _, _)
first_difference(lhs, rhs, i) ==
    IF i > 0
    THEN IF Block(lhs, i) # Block(rhs, i) THEN i
         ELSE first_difference(lhs, rhs, ToSize(i - 1))
    ELSE 0

(* operator< never looking at the blocks only the longest bitset has *)
longest_blocks_ignored(longest_bitset, i, shortest_blocks_size) == FALSE

(* the loop "for(i = longest_blocks_size - 1; i >= shortest_blocks_size; --i)"
   over the blocks only the longest bitset has: TRUE when one is not zero *)
RECURSIVE longest_has_high_bits(_, _, _)
longest_has_high_bits(longest_bitset, i, shortest_blocks_size) ==
    IF i >= shortest_blocks_size
    THEN IF Block(longest_bitset, i) # 0 THEN TRUE
         ELSE longest_has_high_bits(longest_bitset, ToSize(i - 1), shortest_blocks_size)
    ELSE FALSE

Max(x, y) == IF x >= y THEN x ELSE y

Min(x, y) == IF x <= y THEN x ELSE y

(* operator< of equal numbers without the size comparison *)
less_without_size(lhs_size, rhs_size) == FALSE

(* operator< of equal numbers, the longest first *)
less_longest_first(lhs_size, rhs_size) == lhs_size > rhs_size

(* the last return of operator<, for bitsets of different sizes whose
   contents represent the same number: lhs_size < rhs_size *)
less_by_size(lhs_size, rhs_size) == lhs_size < rhs_size

(* operator< *)
op_less(lhs, rhs) ==
    LET lhs_size == size(lhs)
        rhs_size == size(rhs)
        lhs_blocks_size == Len(lhs.m_blocks)
        rhs_blocks_size == Len(rhs.m_blocks)
    IN  IF lhs_size = rhs_size
        THEN IF lhs_size = 0 THEN FALSE
             ELSE LET i == first_difference(lhs, rhs, ToSize(lhs_blocks_size - 1))
                  IN  IF i > 0 THEN Block(lhs, i) < Block(rhs, i)
                      ELSE Block(lhs, 0) < Block(rhs, 0)
        ELSE IF lhs_size = 0 THEN TRUE
        ELSE IF rhs_size = 0 THEN FALSE
        ELSE
        LET rhs_longer == rhs_size > lhs_size
            longest_bitset == IF rhs_longer THEN rhs ELSE lhs
            longest_blocks_size == Max(lhs_blocks_size, rhs_blocks_size)
            shortest_blocks_size == Min(lhs_blocks_size, rhs_blocks_size)
        IN  IF longest_has_high_bits(longest_bitset, ToSize(longest_blocks_size - 1),
                                     shortest_blocks_size)
            THEN rhs_longer
            ELSE LET i == first_difference(lhs, rhs, ToSize(shortest_blocks_size - 1))
                 IN  IF i > 0 THEN Block(lhs, i) < Block(rhs, i)
                     ELSE IF Block(lhs, 0) # Block(rhs, 0)
                     THEN Block(lhs, 0) < Block(rhs, 0)
                     ELSE less_by_size(lhs_size, rhs_size)

(* operator<= *)
op_le(lhs, rhs) == ~op_less(rhs, lhs)

(* operator> *)
op_gt(lhs, rhs) == op_less(rhs, lhs)

(* operator>= *)
op_ge(lhs, rhs) == ~op_less(lhs, rhs)

----------------------------------------------------------------------------
(* Set predicates *)

(* the loop of is_subset_of testing bitset's block against the complement
   of this one's *)
RECURSIVE is_subset_loop_swapped(_, _, _)
is_subset_loop_swapped(v, bitset, i) ==
    IF i < num_blocks(v)
    THEN IF BitAnd(Block(bitset, i), BitNot(Block(v, i))) # zero_block
         THEN FALSE
         ELSE is_subset_loop_swapped(v, bitset, i + 1)
    ELSE TRUE

(* the loop of is_subset_of *)
RECURSIVE is_subset_loop(_, _, _)
is_subset_loop(v, bitset, i) ==
    IF i < num_blocks(v)
    THEN IF BitAnd(Block(v, i), BitNot(Block(bitset, i))) # zero_block
         THEN FALSE
         ELSE is_subset_loop(v, bitset, i + 1)
    ELSE TRUE

(* assert(size() == bitset.size()) of the binary operators and predicates *)
same_size(v, bitset) == size(v) = size(bitset)

is_subset_of(v, bitset) == is_subset_loop(v, bitset, 0)

(* the loop of is_proper_subset_of *)
RECURSIVE is_proper_subset_loop(_, _, _, _)
is_proper_subset_loop(v, bitset, i, is_proper) ==
    IF i < num_blocks(v)
    THEN LET self_block == Block(v, i)
             other_block == Block(bitset, i)
         IN  IF BitAnd(self_block, BitNot(other_block)) # zero_block
             THEN FALSE
             ELSE is_proper_subset_loop(v, bitset, i + 1,
                      is_proper \/ BitAnd(BitNot(self_block), other_block) # zero_block)
    ELSE is_proper

(* is_proper_subset_of with is_proper starting as true *)
is_proper_subset_from_true(v, bitset) == is_proper_subset_loop(v, bitset, 0, TRUE)

is_proper_subset_of(v, bitset) == is_proper_subset_loop(v, bitset, 0, FALSE)

(* intersects looking at the first block only *)
intersects_first_block(v, bitset) ==
    /\ Min(num_blocks(v), num_blocks(bitset)) > 0
    /\ BitAnd(Block(v, 0), Block(bitset, 0)) # zero_block

(* the loop of intersects *)
RECURSIVE intersects_loop(_, _, _, _)
intersects_loop(v, bitset, i, min_blocks_number) ==
    IF i < min_blocks_number
    THEN IF BitAnd(Block(v, i), Block(bitset, i)) # zero_block
         THEN TRUE
         ELSE intersects_loop(v, bitset, i + 1, min_blocks_number)
    ELSE FALSE

intersects(v, bitset) ==
    intersects_loop(v, bitset, 0, Min(num_blocks(v), num_blocks(bitset)))

(* the precondition the documentation of intersects states; the function
   has no assertion for it *)
intersects_pre(v, bitset) == size(v) = size(bitset)

----------------------------------------------------------------------------
(* Text codec.  A string is a sequence of characters. *)

Zero == "0"

One == "1"

(* the inner loop of to_string over the bits of block i_block *)
RECURSIVE to_string_bits(_, _, _, _, _, _)
to_string_bits(s, v, i_block, mask, i_bit, limit) ==
    IF i_bit < limit
    THEN LET len == size(v)
             s1 == IF BitAnd(Block(v, i_block), mask) # zero_block
                   THEN [s EXCEPT ![len - (i_block * bits_per_block + i_bit + 1) + 1] = One]
                   ELSE s
         IN  to_string_bits(s1, v, i_block, Shl(mask, 1), i_bit + 1, limit)
    ELSE s

(* the outer loop of to_string over the blocks *)
RECURSIVE to_string_blocks(_, _, _)
to_string_blocks(s, v, i_block) ==
    IF i_block < Len(v.m_blocks)
    THEN IF Block(v, i_block) = zero_block
         THEN to_string_blocks(s, v, i_block + 1)
         ELSE LET len == size(v)
                  limit == IF i_block * bits_per_block < len
                           THEN len - i_block * bits_per_block
                           ELSE bits_per_block
              IN  to_string_blocks(to_string_bits(s, v, i_block, 1, 0, limit),
                                   v, i_block + 1)
    ELSE s

to_string(v) == to_string_blocks([i \in 1..size(v) |-> Zero], v, 0)

(* init_from_string's loop reading the characters first to last: bit i from
   character pos + i *)
RECURSIVE init_from_string_forward(_, _, _, _, _)
init_from_string_forward(v, s, pos, i, one) ==
    IF i < size(v)
    THEN LET c == s[pos + i + 1]
         IN  init_from_string_forward(IF c = one THEN set_bit(v, i, TRUE) ELSE v,
                                      s, pos, i + 1, one)
    ELSE v

(* the loop of init_from_string: sets bit i from character (pos + size - 1) - i *)
RECURSIVE init_from_string_loop(_, _, _, _, _)
init_from_string_loop(v, s, pos, i, one) ==
    IF i < size(v)
    THEN LET c == s[(pos + size(v) - 1) - i + 1]
         IN  init_from_string_loop(IF c = one THEN set_bit(v, i, TRUE) ELSE v,
                                   s, pos, i + 1, one)
    ELSE v

(* init_from_string taking every character from pos to the end of the
   string, whatever n is *)
init_from_string_to_end(s, pos, n, zero, one) ==
    LET sz == Len(s) - pos
        v0 == Bitset([i \in 1..blocks_required(sz) |-> zero_block], sz)
    IN  init_from_string_loop(v0, s, pos, 0, one)

(* init_from_string, its assertions aside *)
init_from_string(s, pos, n, zero, one) ==
    LET sz == Min(n, Len(s) - pos)
        v0 == Bitset([i \in 1..blocks_required(sz) |-> zero_block], sz)
    IN  init_from_string_loop(v0, s, pos, 0, one)

(* the assertions of the string constructor and of init_from_string:
   pos < str.size(), and every character read is zero or one *)
string_ctor_asserts(s, pos, n, zero, one) ==
    /\ pos < Len(s)
    /\ \A i \in 0..(Min(n, Len(s) - pos) - 1) :
           s[(pos + Min(n, Len(s) - pos) - 1) - i + 1] \in {zero, one}

----------------------------------------------------------------------------
(* Constructors, copy and move *)

(* dynamic_bitset(const allocator_type&) *)
ctor_default == Bitset(<<>>, 0)

ull_digits == init_val_required_blocks * bits_per_block

(* the constructor from an initial value without its sanitize() *)
ctor_value_unsanitized(nbits, init_val, required_blocks) ==
    LET v0 == Bitset([i \in 1..blocks_required(nbits) |-> zero_block], nbits)
    IN  IF nbits = 0 \/ init_val = 0 THEN v0
        ELSE IF required_blocks = 1
        THEN SetBlock(v0, 0, ToBlock(init_val))
        ELSE LET block_mask == one_block
                 blocks_to_init == Min(Len(v0.m_blocks), required_blocks)
             IN  [v0 EXCEPT !.m_blocks =
                     [i \in 1..Len(v0.m_blocks) |->
                         IF i - 1 < blocks_to_init
                         THEN ToBlock(BitAnd(Shr(init_val, (i - 1) * bits_per_block),
                                             block_mask))
                         ELSE v0.m_blocks[i]]]

(* dynamic_bitset(size_type nbits, unsigned long long init_val) for a block
   type of which required_blocks make an unsigned long long *)
ctor_value_for(nbits, init_val, required_blocks) ==
    LET v0 == Bitset([i \in 1..blocks_required(nbits) |-> zero_block], nbits)
    IN  IF nbits = 0 \/ init_val = 0 THEN v0
        ELSE IF required_blocks = 1
        THEN sanitize(SetBlock(v0, 0, ToBlock(init_val)))
        ELSE LET block_mask == one_block
                 blocks_to_init == Min(Len(v0.m_blocks), required_blocks)
             IN  sanitize([v0 EXCEPT !.m_blocks =
                     [i \in 1..Len(v0.m_blocks) |->
                         IF i - 1 < blocks_to_init
                         THEN ToBlock(BitAnd(Shr(init_val, (i - 1) * bits_per_block),
                                             block_mask))
                         ELSE v0.m_blocks[i]]])

(* dynamic_bitset(size_type nbits, unsigned long long init_val) *)
ctor_value(nbits, init_val) == ctor_value_for(nbits, init_val, init_val_required_blocks)

(* dynamic_bitset(std::initializer_list<block_type>) *)
ctor_blocks(init_vals) == append_range(Bitset(<<>>, 0), init_vals)

(* dynamic_bitset(const std::basic_string&, pos, n, zero, one) *)
ctor_string(s, pos, n, zero, one) == init_from_string(s, pos, n, zero, one)

(* the source of a defaulted move: std::vector's move leaves m_blocks empty,
   the size_type m_bits_number is copied and keeps its value *)
moved_from(v) == [v EXCEPT !.m_blocks = <<>>]

(* the destination of a defaulted move or copy: both members of the source *)
moved_to(v) == Bitset(v.m_blocks, v.m_bits_number)

----------------------------------------------------------------------------
(* dynamic_bitset::reference: operator[](pos) binds block get_block(pos)
   and the mask bit_mask(pos); each writer below is the bitset after the
   call on that reference *)

(* reference::set *)
ref_set(v, pos) ==
    SetBlock(v, block_index(pos), BitOr(Block(v, block_index(pos)), bit_mask(pos)))

(* reference::reset *)
ref_reset(v, pos) ==
    SetBlock(v, block_index(pos), BitAnd(Block(v, block_index(pos)), BitNot(bit_mask(pos))))

(* reference::flip *)
ref_flip(v, pos) ==
    SetBlock(v, block_index(pos), BitXor(Block(v, block_index(pos)), bit_mask(pos)))

(* reference::assign and reference::operator=(bool) *)
ref_assign(v, pos, x) == IF x THEN ref_set(v, pos) ELSE ref_reset(v, pos)

(* reference::operator&= *)
ref_and(v, pos, x) == IF ~x THEN ref_reset(v, pos) ELSE v

(* reference::operator|= *)
ref_or(v, pos, x) == IF x THEN ref_set(v, pos) ELSE v

(* reference::operator^= *)
ref_xor(v, pos, x) == IF x THEN ref_flip(v, pos) ELSE v

(* reference::operator-= *)
ref_sub(v, pos, x) == IF x THEN ref_reset(v, pos) ELSE v

(* reference::operator bool *)
ref_bool(v, pos) == BitAnd(Block(v, block_index(pos)), bit_mask(pos)) # zero_block

----------------------------------------------------------------------------
(* Inputs *)

Strings(n) == [1..n -> {Zero, One}]

(* every string of at most n designator characters *)
StringsUpTo(n) == UNION {Strings(k) : k \in 0..n}

(* every sequence of blocks that holds at most n bits *)
BlockSeqsUpTo(n) ==
    UNION {[1..k -> 0..one_block] : k \in 0..(n \div bits_per_block)}

(* initial values: none, the lowest bit, every bit, the highest bit and
   every third bit of an unsigned long long *)
InitVals ==
    {0, 1, Pow2(ull_digits) - 1, Pow2(ull_digits - 1), (Pow2(ull_digits) - 1) \div 3}

(* what the constructors build with at most n bits *)
Constructed(n) ==
    {ctor_default}
    \cup {ctor_value(nbits, init_val) : nbits \in 0..n, init_val \in InitVals}
    \cup {ctor_blocks(init_vals) : init_vals \in BlockSeqsUpTo(n)}
    \cup {ctor_string(s, 0, npos, Zero, One) : s \in StringsUpTo(n) \ {<<>>}}

(* the operands of n bits handed to the binary operators and to swap *)
Operands(n) == {ctor_value(n, init_val) : init_val \in InitVals}

NoBitset == ctor_default

----------------------------------------------------------------------------
(* Spec: one bitset under every mutating operation.  b is the second
   operand of the last operation as the operation left it, and a
   default-constructed bitset when the operation had none. *)

Init ==
    /\ a \in Constructed(MaxBits)
    /\ b = NoBitset
    /\ pre = NoBitset
    /\ str = <<>>
    /\ op = "ctor"
    /\ arg = 0
    /\ ret = 0

Did(name, v) ==
    /\ a' = v
    /\ b' = NoBitset
    /\ op' = name
    /\ UNCHANGED <<pre, str, arg, ret>>

DoResize ==
    \E nbits \in 0..MaxBits, value \in BOOLEAN : Did("resize", resize(a, nbits, value))

DoClear == Did("clear", clear(a))

DoPushBack ==
    /\ size(a) < MaxBits
    /\ \E value \in BOOLEAN : Did("push_back", push_back(a, value))

DoPopBack == Did("pop_back", pop_back(a))

DoAppend ==
    /\ size(a) + bits_per_block <= MaxBits
    /\ \E block \in 0..one_block : Did("append", append(a, block))

DoAppendRange ==
    \E blocks \in BlockSeqsUpTo(MaxBits - size(a)) :
        Did("append_range", append_range(a, blocks))

DoSetBit ==
    \E pos \in 0..(size(a) - 1), value \in BOOLEAN : Did("set_bit", set_bit(a, pos, value))

DoResetBit == \E pos \in 0..(size(a) - 1) : Did("reset_bit", reset_bit(a, pos))

DoFlipBit == \E pos \in 0..(size(a) - 1) : Did("flip_bit", flip_bit(a, pos))

(* the ranges the preconditions of set, reset and flip allow: pos < size(),
   and pos + len - 1 < size() when len > 0 *)
Ranges(v) ==
    {r \in (0..(size(v) - 1)) \X (0..size(v)) : r[2] = 0 \/ r[1] + r[2] - 1 < size(v)}

DoSetRange ==
    \E r \in Ranges(a), value \in BOOLEAN :
        Did("set_range", set_range(a, r[1], r[2], value))

DoResetRange == \E r \in Ranges(a) : Did("reset_range", reset_range(a, r[1], r[2]))

DoFlipRange == \E r \in Ranges(a) : Did("flip_range", flip_range(a, r[1], r[2]))

DoSetAll == Did("set_all", set_all(a))

DoResetAll == Did("reset_all", reset_all(a))

DoFlipAll == Did("flip_all", flip_all(a))

DidWith(name, v, other) ==
    /\ a' = v
    /\ b' = other
    /\ op' = name
    /\ UNCHANGED <<pre, str, arg, ret>>

DoAndAssign == \E rhs \in Operands(size(a)) : DidWith("and_assign", and_assign(a, rhs), rhs)

DoOrAssign == \E rhs \in Operands(size(a)) : DidWith("or_assign", or_assign(a, rhs), rhs)

DoXorAssign == \E rhs \in Operands(size(a)) : DidWith("xor_assign", xor_assign(a, rhs), rhs)

DoSubAssign == \E rhs \in Operands(size(a)) : DidWith("sub_assign", sub_assign(a, rhs), rhs)

DoShlAssign == \E shift \in 0..(MaxBits + 1) : Did("shl_assign", shl_assign(a, shift))

DoShrAssign == \E shift \in 0..(MaxBits + 1) : Did("shr_assign", shr_assign(a, shift))

DoSwap ==
    \E nbits \in 0..MaxBits : \E other \in Operands(nbits) :
        DidWith("swap", swap(a, other)[1], swap(a, other)[2])

DoRefWrite ==
    \E pos \in 0..(size(a) - 1), x \in BOOLEAN :
        \/ Did("ref_assign", ref_assign(a, pos, x))
        \/ Did("ref_set", ref_set(a, pos))
        \/ Did("ref_reset", ref_reset(a, pos))
        \/ Did("ref_flip", ref_flip(a, pos))
        \/ Did("ref_and", ref_and(a, pos, x))
        \/ Did("ref_or", ref_or(a, pos, x))
        \/ Did("ref_xor", ref_xor(a, pos, x))
        \/ Did("ref_sub", ref_sub(a, pos, x))

Next ==
    \/ DoResize \/ DoClear \/ DoPushBack \/ DoPopBack \/ DoAppend \/ DoAppendRange
    \/ DoSetBit \/ DoResetBit \/ DoFlipBit
    \/ DoSetRange \/ DoResetRange \/ DoFlipRange
    \/ DoSetAll \/ DoResetAll \/ DoFlipAll
    \/ DoAndAssign \/ DoOrAssign \/ DoXorAssign \/ DoSubAssign
    \/ DoShlAssign \/ DoShrAssign \/ DoSwap \/ DoRefWrite

Spec == Init /\ [][Next]_vars

(* the value of bit pos of v, read from the blocks by arithmetic alone *)
BitOf(v, pos) ==
    (v.m_blocks[(pos \div bits_per_block) + 1] \div Pow2(pos % bits_per_block)) % 2 = 1

(* ceil(n / bits_per_block) *)
CeilBlocks(n) == (n + bits_per_block - 1) \div bits_per_block

Stored(v) ==
    /\ Len(v.m_blocks) = CeilBlocks(v.m_bits_number)
    /\ v.m_bits_number % bits_per_block # 0 =>
           v.m_blocks[Len(v.m_blocks)] \div Pow2(v.m_bits_number % bits_per_block) = 0

(* C1: after a constructor and after every mutating operation the bitset
   holds ceil(size / bits_per_block) blocks and, when the size is not a
   multiple of bits_per_block, every bit of the last block at an index of
   size mod bits_per_block or more is zero; so does the other operand. *)
StorageInvariant == Stored(a) /\ Stored(b)

(* a non-aligned bitset of two blocks or more whose used bits are all set,
   left by flip(): the complement set the unused bits of the last block and
   sanitize cleared them *)
StorageWitness ==
    /\ op = "flip_all"
    /\ size(a) % bits_per_block # 0
    /\ num_blocks(a) >= 2
    /\ last_block(a) = Pow2(size(a) % bits_per_block) - 1

----------------------------------------------------------------------------
(* SpecMove: a constructed bitset a is moved into b, by the defaulted move
   constructor or by the defaulted move assignment. *)

InitMove ==
    /\ a \in Constructed(MaxBits)
    /\ b = NoBitset
    /\ pre = NoBitset
    /\ str = <<>>
    /\ op = "ctor"
    /\ arg = 0
    /\ ret = 0

MoveConstruct ==
    /\ op = "ctor"
    /\ b' = moved_to(a)
    /\ a' = moved_from(a)
    /\ pre' = a
    /\ op' = "move_ctor"
    /\ UNCHANGED <<str, arg, ret>>

MoveAssign ==
    /\ op = "ctor"
    /\ b' = moved_to(a)
    /\ a' = moved_from(a)
    /\ pre' = a
    /\ op' = "move_assign"
    /\ UNCHANGED <<str, arg, ret>>

NextMove == MoveConstruct \/ MoveAssign

SpecMove == InitMove /\ [][NextMove]_vars

(* C2: after a move the destination equals the old source and the source
   is empty: size() == 0, num_blocks() == 0 and empty(). *)
MoveLeavesSourceEmpty ==
    op \in {"move_ctor", "move_assign"} =>
        /\ op_eq(b, pre)
        /\ size(a) = 0
        /\ num_blocks(a) = 0
        /\ empty(a)

----------------------------------------------------------------------------
(* SpecString: the two round trips through the text codec, with the default
   pos = 0, n = npos, zero = '0', one = '1'.  A run starts from a bitset
   (op = "vector") or from a string of designators (op = "string"); a
   failed assertion of the constructor ends it in op = "assert_failed". *)

InitString ==
    /\ \/ /\ op = "vector"
          /\ a \in Constructed(MaxBits)
          /\ str = <<>>
       \/ /\ op = "string"
          /\ str \in StringsUpTo(MaxBits)
          /\ a = NoBitset
    /\ b = NoBitset
    /\ pre = NoBitset
    /\ arg = <<>>
    /\ ret = 0

(* s = v.to_string() *)
ToStringOfVector ==
    /\ op = "vector"
    /\ str' = to_string(a)
    /\ pre' = a
    /\ op' = "vector_to_string"
    /\ UNCHANGED <<a, b, arg, ret>>

(* dynamic_bitset(s) on that string *)
ConstructFromResult ==
    /\ op = "vector_to_string"
    /\ IF string_ctor_asserts(str, 0, npos, Zero, One)
       THEN /\ a' = ctor_string(str, 0, npos, Zero, One)
            /\ op' = "vector_round_trip"
       ELSE /\ a' = a
            /\ op' = "assert_failed"
    /\ UNCHANGED <<b, pre, str, arg, ret>>

(* dynamic_bitset(s) on a given string s *)
ConstructFromString ==
    /\ op = "string"
    /\ arg' = str
    /\ IF string_ctor_asserts(str, 0, npos, Zero, One)
       THEN /\ a' = ctor_string(str, 0, npos, Zero, One)
            /\ op' = "string_to_vector"
       ELSE /\ a' = a
            /\ op' = "assert_failed"
    /\ UNCHANGED <<b, pre, str, ret>>

(* to_string() of that bitset *)
ToStringOfResult ==
    /\ op = "string_to_vector"
    /\ str' = to_string(a)
    /\ op' = "string_round_trip"
    /\ UNCHANGED <<a, b, pre, arg, ret>>

NextString ==
    ToStringOfVector \/ ConstructFromResult \/ ConstructFromString \/ ToStringOfResult

SpecString == InitString /\ [][NextString]_vars

(* C3 as stated: for every bitset, the empty one included, and for every
   string of designators, the empty one included, the round trip gives the
   value it started from and no assertion fails. *)
StringRoundTripAlways ==
    /\ op # "assert_failed"
    /\ op = "vector_round_trip" => op_eq(a, pre)
    /\ op = "string_round_trip" => str = arg

(* C3 amended: the round trip of a bitset of at least one bit gives a bitset
   equal to it, the round trip of a string of at least one designator gives
   the same string, and the constructor's assertions fail for the empty
   string alone. *)
StringRoundTrip ==
    /\ op = "vector_round_trip" => op_eq(a, pre)
    /\ op = "string_round_trip" => str = arg
    /\ op = "assert_failed" => Len(str) = 0
    /\ op \in {"vector_to_string", "string"} /\ Len(str) > 0 =>
           string_ctor_asserts(str, 0, npos, Zero, One)

(* a non-aligned bitset of the largest size, its lowest bit set and its
   highest bit clear, back from its string *)
StringRoundTripWitness ==
    /\ op = "vector_round_trip"
    /\ size(a) = MaxBits
    /\ size(a) % bits_per_block # 0
    /\ BitOf(a, 0)
    /\ ~BitOf(a, size(a) - 1)
    /\ str[1] = Zero
    /\ str[Len(str)] = One

(***************************************************************************)
(* Shifts: v <<= k, v >>= k and the expression (v << k) >> k, for every    *)
(* k from 0 to one more than the largest size.                             *)
(***************************************************************************)

Shifts == 0..(MaxBits + 1)

InitShift ==
    /\ a \in Constructed(MaxBits)
    /\ b = NoBitset
    /\ pre = NoBitset
    /\ str = <<>>
    /\ op = "ctor"
    /\ arg = 0
    /\ ret = NoBitset

(* v <<= k; the operator returns *this *)
ShiftLeftAssign ==
    \E k \in Shifts :
        /\ pre' = a
        /\ a' = shl_assign(a, k)
        /\ ret' = a'
        /\ arg' = k
        /\ op' = "shl_assign"
        /\ UNCHANGED <<b, str>>

(* v >>= k; the operator returns *this *)
ShiftRightAssign ==
    \E k \in Shifts :
        /\ pre' = a
        /\ a' = shr_assign(a, k)
        /\ ret' = a'
        /\ arg' = k
        /\ op' = "shr_assign"
        /\ UNCHANGED <<b, str>>

(* (v << k) >> k: both operators are const and work on a copy of *this *)
ShiftLeftThenRight ==
    \E k \in Shifts :
        /\ pre' = a
        /\ ret' = op_shr(op_shl(a, k), k)
        /\ arg' = k
        /\ op' = "shl_shr"
        /\ UNCHANGED <<a, b, str>>

NextShift == ShiftLeftAssign \/ ShiftRightAssign \/ ShiftLeftThenRight

SpecShift == InitShift /\ [][NextShift]_vars

(* C4: (v << k) >> k has the size n of v and is v with its top min(k, n)
   bits cleared: position i holds the bit of v when i < n - min(k, n) and 0
   otherwise; v itself is left as it was. *)
ShiftRoundTrip ==
    op = "shl_shr" =>
        /\ size(ret) = size(pre)
        /\ \A i \in 0..(size(pre) - 1) :
               BitOf(ret, i) = IF i < size(pre) - Min(arg, size(pre))
                               THEN BitOf(pre, i)
                               ELSE FALSE
        /\ Stored(ret)
        /\ a = pre

(* a non-aligned bitset of the largest size with its first and last bits
   set, shifted up and down by more than a block and not by whole blocks *)
ShiftRoundTripWitness ==
    /\ op = "shl_shr"
    /\ size(pre) = MaxBits
    /\ size(pre) % bits_per_block # 0
    /\ arg > bits_per_block
    /\ arg < size(pre)
    /\ arg % bits_per_block # 0
    /\ BitOf(pre, 0)
    /\ BitOf(pre, size(pre) - 1)
    /\ BitOf(ret, 0)
    /\ ~BitOf(ret, size(pre) - 1)

(* C5: v <<= k and v >>= k agree with the per-bit reference and keep the
   size: after <<= position i holds the old bit i - k when i >= k and 0
   otherwise, after >>= it holds the old bit i + k when i + k < n and 0
   otherwise; k = 0 changes nothing, k >= n clears every bit, and the
   unused bits of the last block stay 0. *)
ShiftPerBit ==
    /\ op = "shl_assign" =>
           /\ size(a) = size(pre)
           /\ \A i \in 0..(size(a) - 1) :
                  BitOf(a, i) = IF i >= arg THEN BitOf(pre, i - arg) ELSE FALSE
    /\ op = "shr_assign" =>
           /\ size(a) = size(pre)
           /\ \A i \in 0..(size(a) - 1) :
                  BitOf(a, i) = IF i + arg < size(a) THEN BitOf(pre, i + arg) ELSE FALSE
    /\ op \in {"shl_assign", "shr_assign"} =>
           /\ arg = 0 => a = pre
           /\ arg >= size(pre) => \A i \in 0..(size(a) - 1) : ~BitOf(a, i)
           /\ Stored(a)
           /\ ret = a

(* a non-aligned bitset of the largest size shifted down by more than a
   block and not by whole blocks, a bit of its last block arriving in its
   first block *)
ShiftPerBitWitness ==
    /\ op = "shr_assign"
    /\ size(pre) = MaxBits
    /\ size(pre) % bits_per_block # 0
    /\ arg > bits_per_block
    /\ arg < size(pre)
    /\ arg % bits_per_block # 0
    /\ BitOf(pre, size(pre) - 1)
    /\ BitOf(a, size(pre) - 1 - arg)
    /\ ~BitOf(a, size(pre) - 1)

(***************************************************************************)
(* Queries: count(), find_first() and find_next(prev) on every build.      *)
(***************************************************************************)

Prevs == 0..(MaxBits + 1) \cup {npos}

InitQuery ==
    /\ a \in Constructed(MaxBits)
    /\ b = NoBitset
    /\ pre = NoBitset
    /\ str = <<>>
    /\ op = "ctor"
    /\ arg = 0
    /\ ret = 0

(* v.count() *)
Count ==
    \E build \in Builds :
        /\ ret' = count(a, build)
        /\ arg' = 0
        /\ op' = "count"
        /\ UNCHANGED <<a, b, pre, str>>

(* v.find_first() *)
FindFirst ==
    \E build \in Builds :
        /\ ret' = find_first(a, build)
        /\ arg' = 0
        /\ op' = "find_first"
        /\ UNCHANGED <<a, b, pre, str>>

(* v.find_next(prev) *)
FindNext ==
    \E build \in Builds, prev \in Prevs :
        /\ ret' = find_next(a, prev, build)
        /\ arg' = prev
        /\ op' = "find_next"
        /\ UNCHANGED <<a, b, pre, str>>

NextQuery == Count \/ FindFirst \/ FindNext

SpecQuery == InitQuery /\ [][NextQuery]_vars

(* the positions p < size() with test(p) true *)
SetPositions(v) == {p \in 0..(size(v) - 1) : test(v, p)}

Least(S) == CHOOSE x \in S : \A y \in S : x <= y

(* C6: count() is the number of positions p < size() with test(p) true, on
   every build. *)
CountIsSetPositions ==
    op = "count" => ret = Cardinality(SetPositions(a))

(* a non-aligned bitset of the largest size, some bits set and some clear,
   the last bit set, counted *)
CountWitness ==
    /\ op = "count"
    /\ size(a) = MaxBits
    /\ size(a) % bits_per_block # 0
    /\ test(a, size(a) - 1)
    /\ ret >= 2
    /\ ret < size(a)

(* C7: find_first() is the smallest set position, npos when there is none;
   find_next(prev) is the smallest set position greater than prev, npos when
   there is none, and so npos when prev is npos, when prev >= size() - 1 and
   when the bitset is empty. *)
FindIsLeastPosition ==
    /\ op = "find_first" =>
           ret = IF SetPositions(a) = {} THEN npos ELSE Least(SetPositions(a))
    /\ op = "find_next" =>
           LET after == {p \in SetPositions(a) : p > arg}
           IN  /\ ret = IF after = {} THEN npos ELSE Least(after)
               /\ arg = npos => ret = npos
               /\ arg >= size(a) - 1 => ret = npos
               /\ size(a) = 0 => ret = npos

(* find_next from the middle of the first block of a non-aligned bitset,
   a bit set at prev and below it, the answer being the last bit, two
   blocks further *)
FindWitness ==
    /\ op = "find_next"
    /\ size(a) = MaxBits
    /\ size(a) % bits_per_block # 0
    /\ arg = 1
    /\ test(a, 0)
    /\ test(a, 1)
    /\ ret = size(a) - 1
    /\ block_index(ret) = block_index(arg) + 2

(***************************************************************************)
(* Ordering: the six comparison operators on two bitsets of any two sizes. *)
(***************************************************************************)

InitOrder ==
    /\ a \in Constructed(MaxOrderBits)
    /\ b \in Constructed(MaxOrderBits)
    /\ pre = NoBitset
    /\ str = <<>>
    /\ op = "ctor"
    /\ arg = 0
    /\ ret = 0

(* a < b, a > b, a == b, a != b, a <= b and a >= b *)
Compare ==
    /\ op = "ctor"
    /\ ret' = [less |-> op_less(a, b), greater |-> op_gt(a, b),
               equal |-> op_eq(a, b), not_equal |-> op_ne(a, b),
               less_equal |-> op_le(a, b), greater_equal |-> op_ge(a, b)]
    /\ op' = "compare"
    /\ UNCHANGED <<a, b, pre, str, arg>>

NextOrder == Compare

SpecOrder == InitOrder /\ [][NextOrder]_vars

BoolToNat(x) == IF x THEN 1 ELSE 0

(* the number a bitset's bits represent, bit 0 the least significant *)
RECURSIVE NumberFrom(_, _)
NumberFrom(v, i) ==
    IF i >= size(v) THEN 0
    ELSE BoolToNat(BitOf(v, i)) + 2 * NumberFrom(v, i + 1)

Number(v) == NumberFrom(v, 0)

(* the bitset built from a string of '0' and '1' *)
FromString(s) == ctor_string(s, 0, npos, Zero, One)

(* C8: for any two bitsets of any sizes exactly one of a < b, a > b and
   a == b holds, and a <= b with b <= a implies a == b. *)
OrderIsTotal ==
    op = "compare" =>
        /\ BoolToNat(ret.less) + BoolToNat(ret.greater) + BoolToNat(ret.equal) = 1
        /\ ret.less_equal /\ ret.greater_equal => ret.equal
        /\ ret.not_equal = ~ret.equal

(* two bitsets of different sizes and different numbers of blocks holding
   the same number, not 0, compared *)
OrderIsTotalWitness ==
    /\ op = "compare"
    /\ num_blocks(a) < num_blocks(b)
    /\ Number(a) = Number(b)
    /\ Number(a) # 0
    /\ ret.less
    /\ ~ret.greater
    /\ ~ret.equal

(* C9: a < b compares the numbers the bits represent first and, when they
   are equal, the sizes, the shorter bitset first; so the empty bitset is
   less than every other one, and for A = "0011" and B = "011": B < A is
   true, A <= B is false, B <= A is true and A == B is false. *)
LessIsNumberThenSize ==
    op = "compare" =>
        /\ ret.less = \/ Number(a) < Number(b)
                      \/ Number(a) = Number(b) /\ size(a) < size(b)
        /\ size(a) = 0 /\ size(b) > 0 => ret.less
        /\ a = FromString(<<Zero, Zero, One, One>>) /\ b = FromString(<<Zero, One, One>>) =>
               /\ ret.greater
               /\ ~ret.less_equal
               /\ ret.greater_equal
               /\ ~ret.equal

(* A = "0011" compared with B = "011" *)
LessIsNumberThenSizeWitness ==
    /\ op = "compare"
    /\ a = FromString(<<Zero, Zero, One, One>>)
    /\ b = FromString(<<Zero, One, One>>)
    /\ ret.greater
    /\ Number(a) = Number(b)

(* C10 as stated: the 4-bit "0011" compares less than the 3-bit "011". *)
LongerIsLess ==
    op = "compare" /\ a = FromString(<<Zero, Zero, One, One>>)
                   /\ b = FromString(<<Zero, One, One>>) =>
        ret.less

(* C10 amended: two bitsets of different sizes can both be the number 3 and
   still be ordered, and it is the 3-bit "011" that compares less than the
   4-bit "0011", not the other way round. *)
ShorterIsLess ==
    op = "compare" /\ a = FromString(<<Zero, One, One>>)
                   /\ b = FromString(<<Zero, Zero, One, One>>) =>
        /\ Number(a) = 3
        /\ Number(b) = 3
        /\ ret.less
        /\ ~ret.greater
        /\ ~ret.equal

(* "011" compared with "0011" *)
ShorterIsLessWitness ==
    /\ op = "compare"
    /\ size(a) = 3
    /\ size(b) = 4
    /\ Number(a) = 3
    /\ Number(b) = 3
    /\ ret.less

(***************************************************************************)
(* Set predicates: is_subset_of, is_proper_subset_of and intersects on two *)
(* bitsets.  The first two assert equal sizes; intersects does not.        *)
(***************************************************************************)

InitSet ==
    /\ a \in Constructed(MaxOrderBits)
    /\ b \in Constructed(MaxOrderBits)
    /\ pre = NoBitset
    /\ str = <<>>
    /\ op = "ctor"
    /\ arg = 0
    /\ ret = 0

(* a.is_subset_of(b) *)
IsSubsetOf ==
    /\ op = "ctor"
    /\ same_size(a, b)
    /\ ret' = is_subset_of(a, b)
    /\ op' = "is_subset_of"
    /\ UNCHANGED <<a, b, pre, str, arg>>

(* a.is_proper_subset_of(b) and b.is_proper_subset_of(a) *)
IsProperSubsetOf ==
    /\ op = "ctor"
    /\ same_size(a, b)
    /\ ret' = [forward |-> is_proper_subset_of(a, b),
               backward |-> is_proper_subset_of(b, a)]
    /\ op' = "is_proper_subset_of"
    /\ UNCHANGED <<a, b, pre, str, arg>>

(* a.intersects(b); arg records whether the call met the documented
   precondition *)
Intersects ==
    /\ op = "ctor"
    /\ ret' = intersects(a, b)
    /\ arg' = intersects_pre(a, b)
    /\ op' = "intersects"
    /\ UNCHANGED <<a, b, pre, str>>

NextSet == IsSubsetOf \/ IsProperSubsetOf \/ Intersects

SpecSet == InitSet /\ [][NextSet]_vars

(* the positions both bitsets have *)
CommonPositions(v, w) == 0..(Min(size(v), size(w)) - 1)

(* C11: for equal-size A and B, the empty ones included, A.is_subset_of(B)
   is (A & ~B).none(), which is true iff every position set in A is set in
   B. *)
SubsetIsAndNotNone ==
    op = "is_subset_of" =>
        /\ ret = none(and_assign(a, op_not(b)))
        /\ ret = \A p \in 0..(size(a) - 1) : BitOf(a, p) => BitOf(b, p)

(* two non-aligned bitsets of two blocks, the first a subset of the second
   and different from it in the last block only *)
SubsetWitness ==
    /\ op = "is_subset_of"
    /\ size(a) > bits_per_block
    /\ size(a) % bits_per_block # 0
    /\ ret
    /\ Block(a, 0) = Block(b, 0)
    /\ Block(a, 0) # zero_block
    /\ Block(a, 1) # Block(b, 1)
    /\ Block(a, 1) # zero_block

(* C12: for equal-size A and B, the empty ones included, the single pass of
   A.is_proper_subset_of(B) gives (A != B) && A.is_subset_of(B), and
   A.is_proper_subset_of(B) implies !B.is_proper_subset_of(A). *)
ProperSubsetIsSubsetAndDifferent ==
    op = "is_proper_subset_of" =>
        /\ ret.forward = (op_ne(a, b) /\ is_subset_of(a, b))
        /\ ret.backward = (op_ne(b, a) /\ is_subset_of(b, a))
        /\ ret.forward => ~ret.backward

(* two non-aligned bitsets of two blocks, the first a proper subset of the
   second and different from it in the first block only *)
ProperSubsetWitness ==
    /\ op = "is_proper_subset_of"
    /\ size(a) > bits_per_block
    /\ size(a) % bits_per_block # 0
    /\ ret.forward
    /\ ~ret.backward
    /\ Block(a, 0) # Block(b, 0)
    /\ Block(a, 1) = Block(b, 1)
    /\ Block(a, 1) # zero_block

(* C13 as stated: A.intersects(B) is (A & B).any() for equal sizes, and for
   any two sizes the call is within the contract and is true iff some
   position below both sizes is set in both. *)
IntersectsAnySizesInContract ==
    op = "intersects" =>
        /\ arg
        /\ ret = \E p \in CommonPositions(a, b) : BitOf(a, p) /\ BitOf(b, p)
        /\ size(a) = size(b) => ret = any(and_assign(a, b))

(* C13 amended: A.intersects(B) is (A & B).any() for equal sizes; for any
   two sizes it is true iff some position below both sizes is set in both,
   only the blocks of the shorter bitset being compared; the documented
   precondition, which nothing asserts, holds for equal sizes alone. *)
IntersectsCommonPositions ==
    op = "intersects" =>
        /\ ret = \E p \in CommonPositions(a, b) : BitOf(a, p) /\ BitOf(b, p)
        /\ size(a) = size(b) => ret = any(and_assign(a, b))
        /\ arg = (size(a) = size(b))

(* two bitsets of different sizes, outside the documented precondition,
   that have no common bit in the first block and one in the second *)
IntersectsWitness ==
    /\ op = "intersects"
    /\ ~arg
    /\ size(a) # size(b)
    /\ num_blocks(a) >= 2
    /\ num_blocks(b) >= 2
    /\ Block(a, 0) # zero_block
    /\ Block(b, 0) # zero_block
    /\ BitAnd(Block(a, 0), Block(b, 0)) = zero_block
    /\ ret

(***************************************************************************)
(* Pushing bits one by one onto an empty bitset and looking at the result. *)
(* arg is the sequence of the values pushed so far.                        *)
(***************************************************************************)

InitPush ==
    /\ a = ctor_default
    /\ b = NoBitset
    /\ pre = NoBitset
    /\ str = <<>>
    /\ op = "ctor"
    /\ arg = <<>>
    /\ ret = 0

(* v.push_back(value) *)
PushBack ==
    \E value \in BOOLEAN :
        /\ size(a) < MaxBits
        /\ a' = push_back(a, value)
        /\ arg' = Append(arg, value)
        /\ op' = "push_back"
        /\ str' = <<>>
        /\ ret' = 0
        /\ UNCHANGED <<b, pre>>

(* v.size(), v.to_string(), v.count(), v.find_first() and v.find_next(0) *)
Observe ==
    \E build \in Builds :
        /\ op = "push_back"
        /\ str' = to_string(a)
        /\ ret' = [size |-> size(a), count |-> count(a, build),
                   find_first |-> find_first(a, build),
                   find_next |-> find_next(a, 0, build)]
        /\ op' = "observe"
        /\ UNCHANGED <<a, b, pre, arg>>

NextPush == PushBack \/ Observe

SpecPush == InitPush /\ [][NextPush]_vars

(* C14: from an empty bitset, after push_back(1), push_back(0) and
   push_back(1): size() is 3, to_string() is "101", count() is 2,
   find_first() is 0 and find_next(0) is 2. *)
PushOneZeroOne ==
    op = "observe" /\ arg = <<TRUE, FALSE, TRUE>> =>
        /\ ret.size = 3
        /\ str = <<One, Zero, One>>
        /\ ret.count = 2
        /\ ret.find_first = 0
        /\ ret.find_next = 2

(* the bitset looked at after the three calls *)
PushOneZeroOneWitness ==
    /\ op = "observe"
    /\ arg = <<TRUE, FALSE, TRUE>>
    /\ size(a) = 3
    /\ BitOf(a, 0)
    /\ ~BitOf(a, 1)
    /\ BitOf(a, 2)

(***************************************************************************)
(* resize(nbits, value) and clear() on a bitset of any size.               *)
(***************************************************************************)

Sizes == 0..(MaxBits + 1)

InitResize ==
    /\ a \in Constructed(MaxBits)
    /\ b = NoBitset
    /\ pre = NoBitset
    /\ str = <<>>
    /\ op = "ctor"
    /\ arg = [nbits |-> 0, value |-> FALSE]
    /\ ret = 0

(* v.resize(nbits, value) *)
Resize ==
    \E nbits \in Sizes, value \in BOOLEAN :
        /\ op = "ctor"
        /\ pre' = a
        /\ a' = resize(a, nbits, value)
        /\ arg' = [nbits |-> nbits, value |-> value]
        /\ op' = "resize"
        /\ UNCHANGED <<b, str, ret>>

(* v.clear() *)
Clear ==
    /\ op = "ctor"
    /\ pre' = a
    /\ a' = clear(a)
    /\ op' = "clear"
    /\ UNCHANGED <<b, str, arg, ret>>

NextResize == Resize \/ Clear

SpecResize == InitResize /\ [][NextResize]_vars

(* C15: after resize(new_size, fill) on a bitset of size n the size is
   new_size, the number of blocks is ceil(new_size / W), every position
   below min(n, new_size) keeps its value and every position from n to
   new_size - 1 reads fill, for both values of fill and whether or not the
   growth stays inside the old last block; resize to the current size
   changes nothing and clear() leaves what resize(0) leaves. *)
ResizeKeepsAndFills ==
    /\ op = "resize" =>
           /\ size(a) = arg.nbits
           /\ num_blocks(a) = CeilBlocks(arg.nbits)
           /\ \A p \in 0..(Min(size(pre), arg.nbits) - 1) : BitOf(a, p) = BitOf(pre, p)
           /\ \A p \in size(pre)..(arg.nbits - 1) : BitOf(a, p) = arg.value
           /\ arg.nbits = size(pre) => a = pre
           /\ Stored(a)
    /\ op = "clear" =>
           /\ size(a) = 0
           /\ num_blocks(a) = 0
           /\ a = resize(pre, 0, FALSE)
           /\ a = resize(pre, 0, TRUE)

(* a non-aligned bitset with bits set and bits clear grown with fill true
   past the end of its last block to another non-aligned size *)
ResizeWitness ==
    /\ op = "resize"
    /\ arg.value
    /\ size(pre) > bits_per_block
    /\ size(pre) % bits_per_block # 0
    /\ arg.nbits % bits_per_block # 0
    /\ num_blocks(a) > num_blocks(pre)
    /\ ~BitOf(pre, size(pre) - 1)
    /\ BitOf(pre, 0)
    /\ BitOf(a, size(pre))
    /\ BitOf(a, size(a) - 1)

(***************************************************************************)
(* append(block), append of a range of blocks and the constructor from an  *)
(* initializer list.  arg is the sequence of the blocks given.             *)
(***************************************************************************)

InitAppend ==
    /\ a \in Constructed(MaxOrderBits)
    /\ b = NoBitset
    /\ pre = NoBitset
    /\ str = <<>>
    /\ op = "ctor"
    /\ arg = <<>>
    /\ ret = 0

(* v.append(block) *)
AppendBlock ==
    \E block \in 0..one_block :
        /\ op = "ctor"
        /\ pre' = a
        /\ a' = append(a, block)
        /\ arg' = <<block>>
        /\ op' = "append"
        /\ UNCHANGED <<b, str, ret>>

(* v.append({b1, ..., bm}) and v.append(first, last) *)
AppendBlocks ==
    \E blocks \in BlockSeqsUpTo(MaxBits) :
        /\ op = "ctor"
        /\ pre' = a
        /\ a' = append_range(a, blocks)
        /\ arg' = blocks
        /\ op' = "append_range"
        /\ UNCHANGED <<b, str, ret>>

(* dynamic_bitset{b1, ..., bm} *)
ConstructFromBlocks ==
    \E blocks \in BlockSeqsUpTo(MaxBits) :
        /\ op = "ctor"
        /\ pre' = NoBitset
        /\ a' = ctor_blocks(blocks)
        /\ arg' = blocks
        /\ op' = "ctor_blocks"
        /\ UNCHANGED <<b, str, ret>>

NextAppend == AppendBlock \/ AppendBlocks \/ ConstructFromBlocks

SpecAppend == InitAppend /\ [][NextAppend]_vars

(* bit j of a block *)
BlockBit(block, j) == (block \div Pow2(j)) % 2 = 1

(* append(b1); ...; append(bm) *)
RECURSIVE AppendEach(_, _)
AppendEach(v, blocks) ==
    IF blocks = <<>> THEN v ELSE AppendEach(append(v, Head(blocks)), Tail(blocks))

(* C16: append(b) on a bitset of size n, aligned or not, empty or not,
   gives size n + W, leaves positions 0..n-1 as they were and puts bit j of
   b at position n + j for every j < W; append of a range b1..bm gives the
   bitset that append(b1); ...; append(bm) gives, an empty range changes
   nothing, and the constructor from a list of m blocks gives size m * W. *)
AppendConcatenates ==
    /\ op = "append" =>
           /\ size(a) = size(pre) + bits_per_block
           /\ \A p \in 0..(size(pre) - 1) : BitOf(a, p) = BitOf(pre, p)
           /\ \A j \in 0..(bits_per_block - 1) :
                  BitOf(a, size(pre) + j) = BlockBit(arg[1], j)
           /\ Stored(a)
    /\ op = "append_range" =>
           /\ a = AppendEach(pre, arg)
           /\ arg = <<>> => a = pre
           /\ size(a) = size(pre) + Len(arg) * bits_per_block
    /\ op = "ctor_blocks" =>
           /\ size(a) = Len(arg) * bits_per_block
           /\ a = AppendEach(ctor_default, arg)

(* two blocks with their lowest and highest bits set appended as a range to
   a non-aligned bitset with its last bit set *)
AppendWitness ==
    /\ op = "append_range"
    /\ Len(arg) = 2
    /\ size(pre) % bits_per_block # 0
    /\ BitOf(pre, size(pre) - 1)
    /\ BlockBit(arg[1], 0) /\ BlockBit(arg[1], bits_per_block - 1)
    /\ BlockBit(arg[2], 0) /\ BlockBit(arg[2], bits_per_block - 1)
    /\ BitOf(a, size(pre))
    /\ BitOf(a, size(a) - 1)
    /\ num_blocks(a) = num_blocks(pre) + 2

(***************************************************************************)
(* set(pos, len, value), reset(pos, len) and flip(pos, len) on every range *)
(* the assertions allow.  arg is the range and the value.                  *)
(***************************************************************************)

InitRange ==
    /\ a \in Constructed(MaxBits)
    /\ b = NoBitset
    /\ pre = NoBitset
    /\ str = <<>>
    /\ op = "ctor"
    /\ arg = [pos |-> 0, len |-> 0, value |-> FALSE]
    /\ ret = 0

(* v.set(pos, len, value) *)
SetRange ==
    \E r \in Ranges(a), value \in BOOLEAN :
        /\ op = "ctor"
        /\ pre' = a
        /\ a' = set_range(a, r[1], r[2], value)
        /\ arg' = [pos |-> r[1], len |-> r[2], value |-> value]
        /\ op' = "set_range"
        /\ UNCHANGED <<b, str, ret>>

(* v.reset(pos, len) *)
ResetRange ==
    \E r \in Ranges(a) :
        /\ op = "ctor"
        /\ pre' = a
        /\ a' = reset_range(a, r[1], r[2])
        /\ arg' = [pos |-> r[1], len |-> r[2], value |-> FALSE]
        /\ op' = "reset_range"
        /\ UNCHANGED <<b, str, ret>>

(* v.flip(pos, len) *)
FlipRange ==
    \E r \in Ranges(a) :
        /\ op = "ctor"
        /\ pre' = a
        /\ a' = flip_range(a, r[1], r[2])
        /\ arg' = [pos |-> r[1], len |-> r[2], value |-> FALSE]
        /\ op' = "flip_range"
        /\ UNCHANGED <<b, str, ret>>

NextRange == SetRange \/ ResetRange \/ FlipRange

SpecRange == InitRange /\ [][NextRange]_vars

(* position p is in the range of the last operation *)
InRange(p) == arg.pos <= p /\ p < arg.pos + arg.len

(* C17: for pos < size() and len > 0 with pos + len - 1 < size(), after
   set(pos, len, value) every position of [pos, pos + len) reads value,
   after reset(pos, len) false, after flip(pos, len) the opposite of what
   it read; every position outside the range and the size are as before,
   and len = 0 changes nothing, wherever the range lies in the blocks. *)
RangeTouchesOnlyRange ==
    /\ op = "set_range" =>
           \A p \in 0..(size(pre) - 1) :
               BitOf(a, p) = IF InRange(p) THEN arg.value ELSE BitOf(pre, p)
    /\ op = "reset_range" =>
           \A p \in 0..(size(pre) - 1) :
               BitOf(a, p) = IF InRange(p) THEN FALSE ELSE BitOf(pre, p)
    /\ op = "flip_range" =>
           \A p \in 0..(size(pre) - 1) :
               BitOf(a, p) = IF InRange(p) THEN ~BitOf(pre, p) ELSE BitOf(pre, p)
    /\ op \in {"set_range", "reset_range", "flip_range"} =>
           /\ size(a) = size(pre)
           /\ Stored(a)
           /\ arg.len = 0 => a = pre

(* a range from the middle of one block to the middle of the next flipped,
   bits set and clear inside it and bits set on both sides of it *)
RangeWitness ==
    /\ op = "flip_range"
    /\ arg.len > 0
    /\ block_index(arg.pos + arg.len - 1) = block_index(arg.pos) + 1
    /\ bit_index(arg.pos) # 0
    /\ bit_index(arg.pos + arg.len - 1) # block_last_bit_index
    /\ BitOf(pre, arg.pos)
    /\ ~BitOf(pre, arg.pos + arg.len - 1)
    /\ BitOf(a, arg.pos - 1)
    /\ BitOf(a, arg.pos + arg.len)
    /\ ~BitOf(a, arg.pos)
    /\ BitOf(a, arg.pos + arg.len - 1)

(***************************************************************************)
(* a &= b, a |= b, a ^= b and a -= b on two bitsets of the same size, the  *)
(* size the operators assert.  b is passed by const reference.             *)
(***************************************************************************)

InitBinary ==
    /\ a \in Constructed(MaxOrderBits)
    /\ b \in Constructed(MaxOrderBits)
    /\ same_size(a, b)
    /\ pre = NoBitset
    /\ str = <<>>
    /\ op = "ctor"
    /\ arg = 0
    /\ ret = 0

AndAssign ==
    /\ op = "ctor"
    /\ same_size(a, b)
    /\ pre' = a
    /\ a' = and_assign(a, b)
    /\ op' = "and_assign"
    /\ UNCHANGED <<b, str, arg, ret>>

OrAssign ==
    /\ op = "ctor"
    /\ same_size(a, b)
    /\ pre' = a
    /\ a' = or_assign(a, b)
    /\ op' = "or_assign"
    /\ UNCHANGED <<b, str, arg, ret>>

XorAssign ==
    /\ op = "ctor"
    /\ same_size(a, b)
    /\ pre' = a
    /\ a' = xor_assign(a, b)
    /\ op' = "xor_assign"
    /\ UNCHANGED <<b, str, arg, ret>>

SubAssign ==
    /\ op = "ctor"
    /\ same_size(a, b)
    /\ pre' = a
    /\ a' = sub_assign(a, b)
    /\ op' = "sub_assign"
    /\ UNCHANGED <<b, str, arg, ret>>

NextBinary == AndAssign \/ OrAssign \/ XorAssign \/ SubAssign

SpecBinary == InitBinary /\ [][NextBinary]_vars

(* C18: for A and B of the same size, after A &= B, A |= B, A ^= B and
   A -= B every position holds old A AND B, old A OR B, old A XOR B and
   old A AND NOT B; the size is unchanged, A -= B gives what A &= ~B gives,
   and the unused bits of the last block stay zero with no sanitize. *)
BinaryIsPositionWise ==
    /\ op = "and_assign" =>
           \A p \in 0..(size(pre) - 1) : BitOf(a, p) = (BitOf(pre, p) /\ BitOf(b, p))
    /\ op = "or_assign" =>
           \A p \in 0..(size(pre) - 1) : BitOf(a, p) = (BitOf(pre, p) \/ BitOf(b, p))
    /\ op = "xor_assign" =>
           \A p \in 0..(size(pre) - 1) : BitOf(a, p) = (BitOf(pre, p) # BitOf(b, p))
    /\ op = "sub_assign" =>
           /\ \A p \in 0..(size(pre) - 1) : BitOf(a, p) = (BitOf(pre, p) /\ ~BitOf(b, p))
           /\ a = and_assign(pre, op_not(b))
    /\ op \in {"and_assign", "or_assign", "xor_assign", "sub_assign"} =>
           /\ size(a) = size(pre)
           /\ size(b) = size(pre)
           /\ num_blocks(a) = num_blocks(pre)
           /\ Stored(a)
           /\ Stored(b)

(* A -= B on two non-aligned bitsets of two blocks, each with a bit the
   other has not and both with the last bit set *)
BinaryWitness ==
    /\ op = "sub_assign"
    /\ size(pre) > bits_per_block
    /\ size(pre) % bits_per_block # 0
    /\ BitOf(pre, size(pre) - 1)
    /\ BitOf(b, size(pre) - 1)
    /\ BitOf(pre, 0)
    /\ ~BitOf(b, 0)
    /\ ~BitOf(pre, 1)
    /\ BitOf(b, 1)
    /\ BitOf(a, 0)
    /\ ~BitOf(a, size(pre) - 1)

(***************************************************************************)
(* Whole-vector operations and queries: flip(), operator~, set() followed  *)
(* by all(), and all(), any() and none() on every constructed bitset.      *)
(***************************************************************************)

InitWhole ==
    /\ a \in Constructed(MaxBits)
    /\ b = NoBitset
    /\ pre = NoBitset
    /\ str = <<>>
    /\ op = "ctor"
    /\ arg = 0
    /\ ret = 0

(* n = v.count(); v.flip(); m = v.count() *)
Flip ==
    \E build \in Builds :
        /\ op = "ctor"
        /\ pre' = a
        /\ a' = flip_all(a)
        /\ ret' = [count_before |-> count(a, build), count_after |-> count(a', build)]
        /\ op' = "flip"
        /\ UNCHANGED <<b, str, arg>>

(* ~v, ~~v and (~v).count(); the operator is const and works on a copy *)
Complement ==
    \E build \in Builds :
        /\ op = "ctor"
        /\ ret' = [not |-> op_not(a), not_not |-> op_not(op_not(a)),
                   count |-> count(a, build), count_not |-> count(op_not(a), build)]
        /\ op' = "not"
        /\ UNCHANGED <<a, b, pre, str, arg>>

(* v.set(); v.all() *)
SetThenAll ==
    /\ op = "ctor"
    /\ pre' = a
    /\ a' = set_all(a)
    /\ ret' = all(a')
    /\ op' = "set_all"
    /\ UNCHANGED <<b, str, arg>>

(* v.all(), v.any() and v.none() *)
AllAnyNone ==
    /\ op = "ctor"
    /\ ret' = [all |-> all(a), any |-> any(a), none |-> none(a)]
    /\ op' = "all_any_none"
    /\ UNCHANGED <<a, b, pre, str, arg>>

NextWhole == Flip \/ Complement \/ SetThenAll \/ AllAnyNone

SpecWhole == InitWhole /\ [][NextWhole]_vars

(* C19: flip() and ~v invert every position of [0, size()), keep the size
   and leave the unused bits of the last block zero; so ~~v == v,
   count(~v) is size minus count(v), and all() is true after set() for
   every size. *)
ComplementInverts ==
    /\ op = "flip" =>
           /\ size(a) = size(pre)
           /\ \A p \in 0..(size(pre) - 1) : BitOf(a, p) = ~BitOf(pre, p)
           /\ Stored(a)
           /\ ret.count_after = size(pre) - ret.count_before
    /\ op = "not" =>
           /\ size(ret.not) = size(a)
           /\ \A p \in 0..(size(a) - 1) : BitOf(ret.not, p) = ~BitOf(a, p)
           /\ Stored(ret.not)
           /\ op_eq(ret.not_not, a)
           /\ ret.count_not = size(a) - ret.count
    /\ op = "set_all" =>
           /\ ret
           /\ size(a) = size(pre)
           /\ \A p \in 0..(size(a) - 1) : BitOf(a, p)
           /\ Stored(a)

(* a non-aligned bitset of the largest size with its first bit set and its
   last bit clear, flipped *)
ComplementWitness ==
    /\ op = "flip"
    /\ size(pre) = MaxBits
    /\ size(pre) % bits_per_block # 0
    /\ BitOf(pre, 0)
    /\ ~BitOf(pre, size(pre) - 1)
    /\ ~BitOf(a, 0)
    /\ BitOf(a, size(pre) - 1)
    /\ ret.count_before > 1

(* C20: all() is true iff every position of [0, size()) is set, so it is
   true on an empty bitset and on a non-aligned one looks at the used bits
   of the last block only; any() is true iff some position is set, so it is
   false on an empty bitset; none() is !any(), true on an empty bitset. *)
AllAnyNoneArePositionWise ==
    op = "all_any_none" =>
        /\ ret.all = \A p \in 0..(size(a) - 1) : BitOf(a, p)
        /\ ret.any = \E p \in 0..(size(a) - 1) : BitOf(a, p)
        /\ ret.none = ~ret.any
        /\ size(a) = 0 => ret.all /\ ~ret.any /\ ret.none

(* a non-aligned bitset of the largest size with every bit set *)
AllAnyNoneWitness ==
    /\ op = "all_any_none"
    /\ size(a) = MaxBits
    /\ size(a) % bits_per_block # 0
    /\ last_block(a) # one_block
    /\ ret.all
    /\ ret.any
    /\ ~ret.none

(***************************************************************************)
(* iterate_bits_on(function).  The member is declared in every language    *)
(* standard, is defined under __cplusplus >= 201703L only, and its         *)
(* definition tests "std::is_same<std::invoke_result_t<...>::value, void>" *)
(* in a plain if: a type where an expression is required, with a value     *)
(* where is_same takes a type.  stop_at is the number of the call at which *)
(* a bool callback returns false, 0 for a void callback and for a bool     *)
(* callback that never returns false.                                      *)
(***************************************************************************)

Standards == {"c++14", "c++17"}

(* #if (__cplusplus >= 201703L) around the definition *)
iterate_bits_on_defined(standard) == standard = "c++17"

(* whether the condition of the second if is an expression a compiler
   accepts *)
iterate_condition_well_formed == FALSE

(* the two while loops: i_bit = find_first(); while(i_bit != npos) { call;
   break on false; i_bit = find_next(i_bit); } *)
RECURSIVE iterate_loop(_, _, _, _, _)
iterate_loop(v, i_bit, visited, stop_at, build) ==
    IF i_bit = npos THEN visited
    ELSE LET called == Append(visited, i_bit)
         IN  IF Len(called) = stop_at
             THEN called
             ELSE iterate_loop(v, find_next(v, i_bit, build), called, stop_at, build)

(* what a call of iterate_bits_on comes to: the positions passed to the
   callback, or no program at all *)
iterate_bits_on(v, standard, stop_at, build) ==
    IF ~iterate_bits_on_defined(standard)
    THEN [status |-> "never_defined", visited |-> <<>>]
    ELSE IF ~iterate_condition_well_formed
    THEN [status |-> "ill_formed", visited |-> <<>>]
    ELSE [status |-> "called",
          visited |-> iterate_loop(v, find_first(v, build), <<>>, stop_at, build)]

InitIterate ==
    /\ a \in Constructed(MaxBits)
    /\ b = NoBitset
    /\ pre = NoBitset
    /\ str = <<>>
    /\ op = "ctor"
    /\ arg = [standard |-> "c++14", stop_at |-> 0]
    /\ ret = [status |-> "ctor", visited |-> <<>>]

(* v.iterate_bits_on(function) *)
Iterate ==
    \E standard \in Standards, stop_at \in 0..MaxBits, build \in Builds :
        /\ op = "ctor"
        /\ ret' = iterate_bits_on(a, standard, stop_at, build)
        /\ arg' = [standard |-> standard, stop_at |-> stop_at]
        /\ op' = "iterate_bits_on"
        /\ UNCHANGED <<a, b, pre, str>>

NextIterate == Iterate

SpecIterate == InitIterate /\ [][NextIterate]_vars

(* the elements of a set of positions in ascending order *)
RECURSIVE Ascending(_)
Ascending(S) ==
    IF S = {} THEN <<>> ELSE <<Least(S)>> \o Ascending(S \ {Least(S)})

(* the first n elements of a sequence, all of them when n is 0 *)
UpTo(s, n) == IF n = 0 \/ n >= Len(s) THEN s ELSE SubSeq(s, 1, n)

(* C21: iterate_bits_on calls the callback once for each set bit, in
   strictly ascending order of position, none repeated and none skipped,
   and terminates; a bool callback that returns false stops the scan at
   that call, a void callback sees every set bit. *)
IterateVisitsSetBits ==
    op = "iterate_bits_on" =>
        /\ ret.status = "called"
        /\ ret.visited = UpTo(Ascending(SetPositions(a)), arg.stop_at)

(***************************************************************************)
(* operator>>(istream, bitset).  str is what the stream holds, a the       *)
(* target; ret is the index in str of the next character the stream would  *)
(* give and whether the stream is still good.                              *)
(***************************************************************************)

Space == " "

Other == "x"

StreamChars == {Zero, One, Other, Space}

(* the sentry: skip the leading whitespace; i is the index of the next
   character *)
RECURSIVE sentry_skip(_, _)
sentry_skip(s, i) ==
    IF i <= Len(s) /\ s[i] = Space THEN sentry_skip(s, i + 1) ELSE i

(* is.get(val); while(is.good()) { push_back or unget and break;
   is.get(val); } : the bits read and the index of the next character *)
RECURSIVE extract_loop(_, _, _)
extract_loop(s, i, reverse_bitset) ==
    IF i > Len(s)
    THEN [reverse_bitset |-> reverse_bitset, next |-> i, good |-> FALSE]
    ELSE IF s[i] = One
    THEN extract_loop(s, i + 1, push_back(reverse_bitset, TRUE))
    ELSE IF s[i] = Zero
    THEN extract_loop(s, i + 1, push_back(reverse_bitset, FALSE))
    ELSE [reverse_bitset |-> reverse_bitset, next |-> i, good |-> TRUE]

(* the bits pushed in the order they were read *)
RECURSIVE reverse_loop_forward(_, _, _)
reverse_loop_forward(bitset, reverse_bitset, i) ==
    IF i > 0
    THEN reverse_loop_forward(
             push_back(bitset, test(reverse_bitset, size(reverse_bitset) - 1 - i)),
             reverse_bitset, i - 1)
    ELSE push_back(bitset, test(reverse_bitset, size(reverse_bitset) - 1))

(* for(i = reverse_bitset.size() - 1; i > 0; --i) push_back(test(i));
   push_back(test(0)) *)
RECURSIVE reverse_loop(_, _, _)
reverse_loop(bitset, reverse_bitset, i) ==
    IF i > 0
    THEN reverse_loop(push_back(bitset, test(reverse_bitset, i)), reverse_bitset, i - 1)
    ELSE push_back(bitset, test(reverse_bitset, 0))

(* operator>> : the target, the index of the next character and the state
   of the stream afterwards *)
stream_extract(s, bitset) ==
    LET first == sentry_skip(s, 1)
    IN  IF first > Len(s)
        THEN [bitset |-> bitset, next |-> first, good |-> FALSE]
        ELSE LET read == extract_loop(s, first, ctor_default)
                 cleared == clear(bitset)
             IN  [bitset |-> IF ~empty(read.reverse_bitset)
                             THEN reverse_loop(cleared, read.reverse_bitset,
                                               size(read.reverse_bitset) - 1)
                             ELSE cleared,
                  next |-> read.next,
                  good |-> read.good]

(* what a stream of at most n characters can hold *)
Streams(n) == UNION {[1..k -> StreamChars] : k \in 0..n}

InitStream ==
    /\ a \in Operands(MaxOrderBits)
    /\ str \in Streams(MaxOrderBits)
    /\ b = NoBitset
    /\ pre = NoBitset
    /\ op = "stream"
    /\ arg = 0
    /\ ret = [next |-> 1, good |-> TRUE]

(* is >> v *)
Extract ==
    /\ op = "stream"
    /\ pre' = a
    /\ LET r == stream_extract(str, a)
       IN  /\ a' = r.bitset
           /\ ret' = [next |-> r.next, good |-> r.good]
    /\ op' = "extract"
    /\ UNCHANGED <<b, str, arg>>

NextStream == Extract

SpecStream == InitStream /\ [][NextStream]_vars

(* the number of whitespace characters a stream begins with *)
Blanks(s) ==
    CHOOSE k \in 0..Len(s) :
        /\ \A i \in 1..k : s[i] = Space
        /\ k = Len(s) \/ s[k + 1] # Space

(* the number of designator characters that follow the first k characters *)
Designators(s, k) ==
    CHOOSE m \in 0..(Len(s) - k) :
        /\ \A i \in 1..m : s[k + i] \in {Zero, One}
        /\ k + m = Len(s) \/ s[k + m + 1] \notin {Zero, One}

(* C22: when the stream, its leading whitespace skipped, holds the
   designators d1 ... dm and then a character that is no designator or
   nothing more, the extraction replaces the target's content: size() is m,
   to_string() is d1 ... dm, the first character read being position m - 1,
   and the character after dm is the next one the stream gives.  With no
   designator and nothing more, no character at all is left to extract and
   the target keeps its content. *)
ExtractReadsDesignators ==
    op = "extract" =>
        LET k == Blanks(str)
            m == Designators(str, k)
        IN  /\ m >= 1 \/ k + m < Len(str) =>
                   /\ size(a) = m
                   /\ to_string(a) = SubSeq(str, k + 1, k + m)
                   /\ \A i \in 0..(m - 1) : BitOf(a, m - 1 - i) = (str[k + 1 + i] = One)
                   /\ Stored(a)
                   /\ ret.next = k + m + 1
                   /\ ret.good = (k + m < Len(str))
            /\ m = 0 /\ k + m = Len(str) => a = pre /\ ~ret.good

(* whitespace, then 1, 0, 0 and a character that is no designator, read
   into a bitset that held five bits *)
ExtractWitness ==
    /\ op = "extract"
    /\ Len(str) = 5
    /\ str[1] = Space
    /\ str[2] = One
    /\ str[3] = Zero
    /\ str[4] = Zero
    /\ str[5] = Other
    /\ size(pre) = MaxOrderBits
    /\ any(pre)
    /\ size(a) = 3
    /\ BitOf(a, 2)
    /\ ~BitOf(a, 0)
    /\ ret.next = 5

(***************************************************************************)
(* Preconditions.  Every call is made with arguments inside and outside    *)
(* its precondition; a failed assertion ends the call before anything is   *)
(* written.  arg holds the call and its arguments, b the right-hand side,  *)
(* str the string given to the constructor.                                *)
(***************************************************************************)

SingleBitCalls == {"test", "set", "reset", "flip", "test_set", "subscript"}

RangeCalls == {"set_range", "reset_range", "flip_range"}

BinaryCalls == {"and_assign", "or_assign", "xor_assign", "sub_assign",
                "is_subset_of", "is_proper_subset_of", "intersects"}

(* the @pre of the documentation of each call *)
documented_pre(call, v, rhs, pos, len, s) ==
    IF call \in SingleBitCalls THEN pos < size(v)
    ELSE IF call \in RangeCalls
    THEN pos < size(v) /\ (len = 0 \/ ToSize(pos + len - 1) < size(v))
    ELSE IF call = "intersects" THEN intersects_pre(v, rhs)
    ELSE IF call \in BinaryCalls THEN size(v) = size(rhs)
    ELSE pos < Len(s)

(* the assertions of each call without the one on the characters of the
   string *)
asserted_pre_but_characters(call, v, rhs, pos, len, s) ==
    IF call \in SingleBitCalls THEN pos < size(v)
    ELSE IF call \in RangeCalls
    THEN pos < size(v) /\ (len = 0 \/ ToSize(pos + len - 1) < size(v))
    ELSE IF call = "intersects" THEN TRUE
    ELSE IF call \in BinaryCalls THEN same_size(v, rhs)
    ELSE pos < Len(s)

(* the assertions each call makes before it reads or writes a block; the
   string constructor's are made as it reads the characters *)
asserted_pre(call, v, rhs, pos, len, s) ==
    IF call \in SingleBitCalls THEN pos < size(v)
    ELSE IF call \in RangeCalls
    THEN pos < size(v) /\ (len = 0 \/ ToSize(pos + len - 1) < size(v))
    ELSE IF call = "intersects" THEN TRUE
    ELSE IF call \in BinaryCalls THEN same_size(v, rhs)
    ELSE string_ctor_asserts(s, pos, npos, Zero, One)

(* the bitset a call leaves when its assertions hold *)
called(call, v, rhs, pos, len, value, s) ==
    CASE call = "set" -> set_bit(v, pos, value)
      [] call = "reset" -> reset_bit(v, pos)
      [] call = "flip" -> flip_bit(v, pos)
      [] call = "test_set" -> IF test(v, pos) # value THEN set_bit(v, pos, value) ELSE v
      [] call = "subscript" -> ref_assign(v, pos, value)
      [] call = "set_range" -> set_range(v, pos, len, value)
      [] call = "reset_range" -> reset_range(v, pos, len)
      [] call = "flip_range" -> flip_range(v, pos, len)
      [] call = "and_assign" -> and_assign(v, rhs)
      [] call = "or_assign" -> or_assign(v, rhs)
      [] call = "xor_assign" -> xor_assign(v, rhs)
      [] call = "sub_assign" -> sub_assign(v, rhs)
      [] call = "string_ctor" -> ctor_string(s, pos, npos, Zero, One)
      [] OTHER -> v

InitContract ==
    /\ a \in Constructed(MaxOrderBits)
    /\ b = NoBitset
    /\ pre = NoBitset
    /\ str = <<>>
    /\ op = "ctor"
    /\ arg = [call |-> "ctor", pos |-> 0, len |-> 0, documented |-> TRUE]
    /\ ret = 0

(* one call with its arguments: the assertions, then the body *)
Call(call, rhs, pos, len, value, s) ==
    /\ op = "ctor"
    /\ pre' = a
    /\ b' = rhs
    /\ str' = s
    /\ arg' = [call |-> call, pos |-> pos, len |-> len,
               documented |-> documented_pre(call, a, rhs, pos, len, s)]
    /\ IF asserted_pre(call, a, rhs, pos, len, s)
       THEN /\ a' = called(call, a, rhs, pos, len, value, s)
            /\ op' = "returned"
       ELSE /\ a' = a
            /\ op' = "assert_failed"
    /\ UNCHANGED ret

(* test(pos), set(pos, value), reset(pos), flip(pos), test_set(pos, value)
   and v[pos] = value *)
CallSingleBit ==
    \E call \in SingleBitCalls, pos \in 0..(MaxOrderBits + 1), value \in BOOLEAN :
        Call(call, NoBitset, pos, 0, value, <<>>)

(* set(pos, len, value), reset(pos, len) and flip(pos, len) *)
CallRange ==
    \E call \in RangeCalls, pos \in 0..(MaxOrderBits + 1), len \in 0..(MaxOrderBits + 1) :
        Call(call, NoBitset, pos, len, TRUE, <<>>)

(* a &= rhs, a |= rhs, a ^= rhs, a -= rhs, a.is_subset_of(rhs),
   a.is_proper_subset_of(rhs) and a.intersects(rhs) *)
CallBinary ==
    \E call \in BinaryCalls, n \in 0..MaxOrderBits :
        \E rhs \in Operands(n) :
            Call(call, rhs, 0, 0, TRUE, <<>>)

(* dynamic_bitset(s, pos): the constructor begins with no block and no bit *)
CallStringCtor ==
    \E s \in Streams(bits_per_block), pos \in 0..(bits_per_block + 1) :
        /\ a = ctor_default
        /\ Call("string_ctor", NoBitset, pos, 0, TRUE, s)

NextContract == CallSingleBit \/ CallRange \/ CallBinary \/ CallStringCtor

SpecContract == InitContract /\ [][NextContract]_vars

(* C23 as stated: every call outside a documented precondition, and every
   listed one, reaches the assertion-failure state. *)
EveryPreconditionAsserted ==
    op \in {"returned", "assert_failed"} =>
        (~arg.documented => op = "assert_failed")

(* C23 amended: test, set, reset, flip, test_set and operator[] with
   pos >= size(), the ranged operations with pos >= size() or
   pos + len - 1 >= size(), the four assignments and the two subset
   predicates with different sizes, and the string constructor with
   pos >= str.size() or a character that is no designator all reach the
   assertion-failure state, the bitset being as it was; intersects, whose
   documentation states the precondition of equal sizes too, asserts
   nothing and returns for every pair of sizes. *)
ListedPreconditionsAsserted ==
    op \in {"returned", "assert_failed"} =>
        LET failed == op = "assert_failed"
        IN  /\ arg.call \in SingleBitCalls => failed = (arg.pos >= size(pre))
            /\ arg.call \in RangeCalls =>
                   failed = \/ arg.pos >= size(pre)
                            \/ arg.len > 0 /\ arg.pos + arg.len - 1 >= size(pre)
            /\ arg.call \in BinaryCalls \ {"intersects"} =>
                   failed = (size(pre) # size(b))
            /\ arg.call = "intersects" =>
                   /\ ~failed
                   /\ arg.documented = (size(pre) = size(b))
            /\ arg.call = "string_ctor" =>
                   failed = \/ arg.pos >= Len(str)
                            \/ \E i \in (arg.pos + 1)..Len(str) : str[i] \notin {Zero, One}
            /\ arg.call # "intersects" /\ ~arg.documented => failed
            /\ failed => a = pre

(* a string whose second character is no designator given to the
   constructor with pos = 0 *)
ListedPreconditionsWitness ==
    /\ op = "assert_failed"
    /\ arg.call = "string_ctor"
    /\ arg.pos = 0
    /\ arg.documented
    /\ Len(str) = bits_per_block
    /\ str[1] = One
    /\ str[2] = Other
    /\ str[Len(str)] = One

(***************************************************************************)
(* Single-bit writers: set(pos, value), reset(pos), flip(pos),             *)
(* test_set(pos, value) and the operations of the accessor v[pos], for     *)
(* every pos < size().                                                     *)
(***************************************************************************)

(* test_set giving back the value the bit has after the call *)
test_set_new_value(v, pos, value) ==
    LET result == test(v, pos)
        w == IF result # value THEN set_bit(v, pos, value) ELSE v
    IN  [bitset |-> w, result |-> test(w, pos)]

(* test_set(pos, value): the bitset afterwards and the value returned *)
test_set(v, pos, value) ==
    LET result == test(v, pos)
    IN  [bitset |-> IF result # value THEN set_bit(v, pos, value) ELSE v,
         result |-> result]

BitWriters == {"set", "reset", "flip", "test_set", "ref_assign", "ref_set", "ref_reset",
               "ref_flip", "ref_and", "ref_or", "ref_xor", "ref_sub"}

(* the bitset a single-bit writer leaves *)
write_bit(call, v, pos, value) ==
    CASE call = "set" -> set_bit(v, pos, value)
      [] call = "reset" -> reset_bit(v, pos)
      [] call = "flip" -> flip_bit(v, pos)
      [] call = "test_set" -> test_set(v, pos, value).bitset
      [] call = "ref_assign" -> ref_assign(v, pos, value)
      [] call = "ref_set" -> ref_set(v, pos)
      [] call = "ref_reset" -> ref_reset(v, pos)
      [] call = "ref_flip" -> ref_flip(v, pos)
      [] call = "ref_and" -> ref_and(v, pos, value)
      [] call = "ref_or" -> ref_or(v, pos, value)
      [] call = "ref_xor" -> ref_xor(v, pos, value)
      [] call = "ref_sub" -> ref_sub(v, pos, value)

InitBit ==
    /\ a \in Constructed(MaxBits)
    /\ b = NoBitset
    /\ pre = NoBitset
    /\ str = <<>>
    /\ op = "ctor"
    /\ arg = [call |-> "ctor", pos |-> 0, value |-> FALSE]
    /\ ret = FALSE

(* one single-bit writer on position pos; ret is what test_set returns, and
   what the accessor converts to beforehand for the others *)
WriteBit ==
    \E call \in BitWriters, pos \in 0..(MaxBits - 1), value \in BOOLEAN :
        /\ op = "ctor"
        /\ pos < size(a)
        /\ pre' = a
        /\ a' = write_bit(call, a, pos, value)
        /\ ret' = IF call = "test_set" THEN test_set(a, pos, value).result
                  ELSE ref_bool(a, pos)
        /\ arg' = [call |-> call, pos |-> pos, value |-> value]
        /\ op' = "write_bit"
        /\ UNCHANGED <<b, str>>

NextBit == WriteBit

SpecBit == InitBit /\ [][NextBit]_vars

(* the value position pos holds after the call *)
WrittenBit(call, old, value) ==
    CASE call \in {"set", "test_set", "ref_assign"} -> value
      [] call \in {"reset", "ref_reset"} -> FALSE
      [] call \in {"flip", "ref_flip"} -> ~old
      [] call = "ref_set" -> TRUE
      [] call = "ref_and" -> old /\ value
      [] call = "ref_or" -> old \/ value
      [] call = "ref_xor" -> old # value
      [] call = "ref_sub" -> old /\ ~value

(* C24: for pos < size(), set(pos, v), reset(pos), flip(pos),
   test_set(pos, v) and every operation on the accessor v[pos] leave the
   size and every other position as they were; bit pos is afterwards v,
   false, the opposite of what it was, v, and for the accessor old AND b,
   old OR b, old XOR b, old AND NOT b; test_set returns the value the bit
   had before the call. *)
SingleBitWritersTouchOneBit ==
    op = "write_bit" =>
        /\ size(a) = size(pre)
        /\ num_blocks(a) = num_blocks(pre)
        /\ \A p \in 0..(size(pre) - 1) :
               p # arg.pos => BitOf(a, p) = BitOf(pre, p)
        /\ BitOf(a, arg.pos) = WrittenBit(arg.call, BitOf(pre, arg.pos), arg.value)
        /\ Stored(a)
        /\ arg.call = "test_set" => ret = BitOf(pre, arg.pos)

(* test_set(pos, false) on the set last bit of a non-aligned bitset of the
   largest size that has other bits set *)
SingleBitWitness ==
    /\ op = "write_bit"
    /\ arg.call = "test_set"
    /\ ~arg.value
    /\ size(pre) = MaxBits
    /\ size(pre) % bits_per_block # 0
    /\ arg.pos = size(pre) - 1
    /\ BitOf(pre, arg.pos)
    /\ BitOf(pre, 0)
    /\ ret
    /\ ~BitOf(a, arg.pos)
    /\ BitOf(a, 0)

(***************************************************************************)
(* dynamic_bitset(nbits, init_val) for a block type as wide as unsigned    *)
(* long long and for a narrower one.  arg holds nbits, init_val and the    *)
(* number of digits of unsigned long long.                                 *)
(***************************************************************************)

InitValue ==
    /\ a = ctor_default
    /\ b = NoBitset
    /\ pre = NoBitset
    /\ str = <<>>
    /\ op = "declared"
    /\ arg = [nbits |-> 0, init_val |-> 0, digits |-> 0]
    /\ ret = 0

(* dynamic_bitset v(nbits, init_val) *)
ConstructFromValue ==
    /\ op = "declared"
    /\ \E required_blocks \in {1, init_val_required_blocks}, nbits \in 0..(MaxBits + 1) :
           \E init_val \in 0..(Pow2(required_blocks * bits_per_block) - 1) :
               /\ a' = ctor_value_for(nbits, init_val, required_blocks)
               /\ arg' = [nbits |-> nbits, init_val |-> init_val,
                          digits |-> required_blocks * bits_per_block]
               /\ op' = "ctor_value"
               /\ UNCHANGED <<b, pre, str, ret>>

NextValue == ConstructFromValue

SpecValue == InitValue /\ [][NextValue]_vars

(* C25: dynamic_bitset(nbits, init_val) has size nbits and, for every
   i < nbits, bit i is bit i of init_val when i is below the number of
   digits of unsigned long long and false otherwise; the bits of init_val
   from nbits on are dropped, the unused bits of the last block being zero;
   for a block as wide as unsigned long long and for a narrower one over
   which init_val is split. *)
ValueConstructorCopiesBits ==
    op = "ctor_value" =>
        /\ size(a) = arg.nbits
        /\ \A i \in 0..(arg.nbits - 1) :
               BitOf(a, i) = (i < arg.digits /\ BlockBit(arg.init_val, i))
        /\ Stored(a)

(* a value with its lowest and highest digits set, split over two blocks
   and cut in the middle of the second *)
ValueConstructorWitness ==
    /\ op = "ctor_value"
    /\ arg.digits > bits_per_block
    /\ arg.nbits > bits_per_block
    /\ arg.nbits < arg.digits
    /\ arg.nbits % bits_per_block # 0
    /\ BlockBit(arg.init_val, 0)
    /\ BlockBit(arg.init_val, arg.nbits - 1)
    /\ BlockBit(arg.init_val, arg.digits - 1)
    /\ BitOf(a, 0)
    /\ BitOf(a, arg.nbits - 1)

(***************************************************************************)
(* Construction from a part of a string, and to_string: str is the source *)
(* string, arg the pos and n handed to the constructor, ret the string    *)
(* to_string returns.                                                     *)
(***************************************************************************)

InitSubstring ==
    /\ \/ /\ op = "string"
          /\ str \in StringsUpTo(MaxBits) \ {<<>>}
          /\ a = NoBitset
       \/ /\ op = "vector"
          /\ str = <<>>
          /\ a \in Constructed(MaxBits)
    /\ b = NoBitset
    /\ pre = NoBitset
    /\ arg = [pos |-> 0, n |-> 0]
    /\ ret = <<>>

(* dynamic_bitset v(str, pos, n) with pos < str.size() *)
ConstructFromSubstring ==
    /\ op = "string"
    /\ \E pos \in 0..(Len(str) - 1), n \in 0..(Len(str) + 1) \cup {npos} :
           /\ string_ctor_asserts(str, pos, n, Zero, One)
           /\ a' = ctor_string(str, pos, n, Zero, One)
           /\ arg' = [pos |-> pos, n |-> n]
           /\ op' = "substring"
           /\ UNCHANGED <<b, pre, str, ret>>

(* v.to_string() *)
ToStringOfBitset ==
    /\ op \in {"vector", "substring"}
    /\ ret' = to_string(a)
    /\ op' = "to_string"
    /\ UNCHANGED <<a, b, pre, str, arg>>

NextSubstring == ConstructFromSubstring \/ ToStringOfBitset

SpecSubstring == InitSubstring /\ [][NextSubstring]_vars

(* the number of characters the constructor takes: min(n, str.size() - pos) *)
TakenLength == Min(arg.n, Len(str) - arg.pos)

(* C26: the bitset constructed from str, pos < str.size() and n has size
   L = min(n, str.size() - pos) and its bit i, i < L, is set exactly when
   the character of str at offset pos + L - 1 - i is the one designator;
   to_string gives size() characters, each a designator, of which the one at
   index size() - 1 - i is the one designator exactly when bit i is set, so
   the empty bitset gives the empty string. *)
SubstringBitsAreCharacters ==
    /\ op = "substring" =>
           /\ size(a) = TakenLength
           /\ \A i \in 0..(TakenLength - 1) :
                  BitOf(a, i) <=> str[(arg.pos + TakenLength - 1 - i) + 1] = One
    /\ op = "to_string" =>
           /\ Len(ret) = size(a)
           /\ \A i \in 0..(size(a) - 1) :
                  /\ ret[(size(a) - 1 - i) + 1] \in {Zero, One}
                  /\ ret[(size(a) - 1 - i) + 1] = One <=> BitOf(a, i)
           /\ size(a) = 0 => ret = <<>>

(* the middle of a string, cut on both sides, that spans two blocks and
   whose first and last characters differ, and its string *)
SubstringWitness ==
    /\ op = "to_string"
    /\ Len(str) = MaxBits
    /\ arg.pos > 0
    /\ arg.pos + arg.n < Len(str)
    /\ arg.n > bits_per_block
    /\ arg.n % bits_per_block # 0
    /\ str[arg.pos + 1] = One
    /\ str[arg.pos + arg.n] = Zero
    /\ str[arg.pos] = Zero
    /\ str[arg.pos + arg.n + 1] = One
    /\ size(a) = arg.n
    /\ BitOf(a, arg.n - 1)
    /\ ~BitOf(a, 0)
    /\ ret = SubSeq(str, arg.pos + 1, arg.pos + arg.n)

(***************************************************************************)
(* Capacity: arg.capacity is m_blocks.capacity(), the number of blocks the *)
(* vector of blocks has storage for.  std::vector promises a capacity of   *)
(* at least what is asked for and no more than that, so a reallocation is  *)
(* a choice among the capacities MaxCapacity allows.                       *)
(***************************************************************************)

(* the most blocks an allocation gives *)
MaxCapacity == blocks_required(MaxBits) + 1

(* m_blocks.capacity() once the vector had to hold n blocks *)
vector_capacity_for(blocks_capacity, n) ==
    IF n > blocks_capacity THEN n..Max(n, MaxCapacity) ELSE {blocks_capacity}

(* capacity() *)
capacity(blocks_capacity) == ToSize(blocks_capacity * bits_per_block)

(* m_blocks.resize(blocks_required(num_bits)) in the place of
   m_blocks.reserve(blocks_required(num_bits)) *)
reserve_as_resize(v, num_bits) ==
    [v EXCEPT !.m_blocks = VectorResize(v.m_blocks, blocks_required(num_bits), zero_block)]

(* reserve(num_bits): m_blocks.reserve keeps the elements of m_blocks, and
   m_bits_number is not written *)
reserve(v, num_bits) ==
    [v EXCEPT !.m_blocks = [i \in 1..Len(v.m_blocks) |-> v.m_blocks[i]]]

(* m_blocks.capacity() after reserve(num_bits) *)
reserve_capacity(blocks_capacity, num_bits) ==
    vector_capacity_for(blocks_capacity, blocks_required(num_bits))

(* shrink_to_fit(): m_blocks.shrink_to_fit keeps the elements *)
shrink_to_fit(v) ==
    [v EXCEPT !.m_blocks = [i \in 1..Len(v.m_blocks) |-> v.m_blocks[i]]]

(* m_blocks.capacity() after shrink_to_fit(), a non-binding request *)
shrink_to_fit_capacity(blocks_capacity, v) == num_blocks(v)..blocks_capacity

InitCapacity ==
    /\ a \in Constructed(MaxBits)
    /\ b = NoBitset
    /\ pre = NoBitset
    /\ str = <<>>
    /\ op = "ctor"
    /\ arg \in {[capacity |-> c, num_bits |-> 0] : c \in num_blocks(a)..MaxCapacity}
    /\ ret = 0

(* v.reserve(num_bits), for what the allocator gives *)
Reserve ==
    \E num_bits \in 0..(MaxCapacity * bits_per_block) :
        \E c \in reserve_capacity(arg.capacity, num_bits) :
            /\ a' = reserve(a, num_bits)
            /\ pre' = a
            /\ arg' = [capacity |-> c, num_bits |-> num_bits]
            /\ op' = "reserve"
            /\ UNCHANGED <<b, str, ret>>

(* v.shrink_to_fit() *)
ShrinkToFit ==
    \E c \in shrink_to_fit_capacity(arg.capacity, a) :
        /\ a' = shrink_to_fit(a)
        /\ pre' = a
        /\ arg' = [capacity |-> c, num_bits |-> 0]
        /\ op' = "shrink_to_fit"
        /\ UNCHANGED <<b, str, ret>>

(* a mutating operation that leaves the bitset v, its vector reallocating
   when it has to *)
Stores(v, name) ==
    \E c \in vector_capacity_for(arg.capacity, num_blocks(v)) :
        /\ a' = v
        /\ pre' = NoBitset
        /\ arg' = [capacity |-> c, num_bits |-> 0]
        /\ op' = name
        /\ UNCHANGED <<b, str, ret>>

(* v.push_back(value) *)
PushBackStored ==
    /\ size(a) < MaxBits
    /\ \E value \in BOOLEAN : Stores(push_back(a, value), "push_back")

(* v.pop_back() *)
PopBackStored == Stores(pop_back(a), "pop_back")

(* v.resize(nbits, value) *)
ResizeStored ==
    \E nbits \in 0..MaxBits, value \in BOOLEAN : Stores(resize(a, nbits, value), "resize")

(* v.clear() *)
ClearStored == Stores(clear(a), "clear")

NextCapacity ==
    \/ Reserve
    \/ ShrinkToFit
    \/ PushBackStored
    \/ PopBackStored
    \/ ResizeStored
    \/ ClearStored

SpecCapacity == InitCapacity /\ [][NextCapacity]_vars

(* C27: in every state capacity() is at least size() and a multiple of the
   number of bits of a block; reserve(num_bits) and shrink_to_fit() leave
   size(), num_blocks() and every bit as they were, and after
   reserve(num_bits) capacity() is at least num_bits. *)
CapacityCoversSize ==
    /\ capacity(arg.capacity) >= size(a)
    /\ capacity(arg.capacity) % bits_per_block = 0
    /\ op \in {"reserve", "shrink_to_fit"} =>
           /\ size(a) = size(pre)
           /\ num_blocks(a) = num_blocks(pre)
           /\ a.m_blocks = pre.m_blocks
    /\ op = "reserve" => capacity(arg.capacity) >= arg.num_bits

(* a reserve for more than the capacity, not a whole number of blocks, on a
   non-aligned bitset with its highest bit set *)
CapacityWitness ==
    /\ op = "reserve"
    /\ size(a) > bits_per_block
    /\ size(a) % bits_per_block # 0
    /\ BitOf(a, size(a) - 1)
    /\ arg.num_bits > size(a)
    /\ arg.num_bits % bits_per_block # 0
    /\ blocks_required(arg.num_bits) > num_blocks(a)
    /\ arg.capacity = blocks_required(arg.num_bits)
    /\ a = pre

(***************************************************************************)
(* push_back, pop_back and resize in any order.  pre is the bitset before  *)
(* the last operation, ret the positions past the end that held a set bit  *)
(* when pop_back or a shrinking resize removed them, and arg.exposed those *)
(* of them the last operation brought back.                                *)
(***************************************************************************)

InitEnd ==
    /\ a \in Constructed(MaxOrderBits)
    /\ b = NoBitset
    /\ pre = NoBitset
    /\ str = <<>>
    /\ op = "ctor"
    /\ arg = [value |-> FALSE, nbits |-> 0, exposed |-> {}]
    /\ ret = {}

(* the positions of v from first on that hold a set bit *)
SetFrom(v, first) == {p \in first..(size(v) - 1) : BitOf(v, p)}

(* the bitset becomes v: the set bits past its end join ret, the positions
   it gains leave it *)
EndMoves(v, name, value, nbits) ==
    /\ a' = v
    /\ pre' = a
    /\ ret' = (ret \cup SetFrom(a, size(v))) \ (0..(size(v) - 1))
    /\ arg' = [value |-> value, nbits |-> nbits,
               exposed |-> ret \cap (size(a)..(size(v) - 1))]
    /\ op' = name
    /\ UNCHANGED <<b, str>>

(* v.push_back(value) *)
PushBackAtEnd ==
    /\ size(a) < MaxOrderBits
    /\ \E value \in BOOLEAN : EndMoves(push_back(a, value), "push_back", value, size(a) + 1)

(* v.pop_back() *)
PopBackAtEnd == EndMoves(pop_back(a), "pop_back", FALSE, size(pop_back(a)))

(* v.resize(nbits, value) *)
ResizeAtEnd ==
    \E nbits \in 0..MaxOrderBits, value \in BOOLEAN :
        EndMoves(resize(a, nbits, value), "resize", value, nbits)

NextEnd == PushBackAtEnd \/ PopBackAtEnd \/ ResizeAtEnd

SpecEnd == InitEnd /\ [][NextEnd]_vars

(* positions 0..n-1 of v and w hold the same bits *)
SameUpTo(v, w, n) == \A i \in 0..(n - 1) : BitOf(v, i) = BitOf(w, i)

(* C28: push_back(value) on a bitset of size n gives size n + 1 with bit n
   equal to value and positions 0..n-1 as they were, and adds a block only
   when n is a multiple of the number of bits of a block; pop_back on a
   non-empty bitset gives size n - 1 with positions 0..n-2 as they were and
   does nothing on an empty one; whatever set bits pop_back and shrinking
   resizes removed before, every position that push_back(false) or a growing
   resize(nbits, false) adds reads false. *)
EndOperationsKeepTheRest ==
    /\ op = "push_back" =>
           /\ size(a) = size(pre) + 1
           /\ BitOf(a, size(pre)) = arg.value
           /\ SameUpTo(a, pre, size(pre))
           /\ num_blocks(a) =
                  num_blocks(pre) + (IF size(pre) % bits_per_block = 0 THEN 1 ELSE 0)
    /\ op = "pop_back" =>
           IF size(pre) = 0 THEN a = pre
           ELSE /\ size(a) = size(pre) - 1
                /\ SameUpTo(a, pre, size(pre) - 1)
    /\ op = "resize" => size(a) = arg.nbits
    /\ op \in {"push_back", "resize"} /\ ~arg.value =>
           /\ SameUpTo(a, pre, Min(size(a), size(pre)))
           /\ \A p \in size(pre)..(size(a) - 1) : ~BitOf(a, p)

(* push_back(false) into a block that is already there, at a position from
   which pop_back or a shrinking resize removed a set bit *)
EndWitness ==
    /\ op = "push_back"
    /\ ~arg.value
    /\ size(pre) % bits_per_block # 0
    /\ size(pre) > bits_per_block
    /\ size(pre) \in arg.exposed
    /\ BitOf(a, 0)
    /\ ~BitOf(a, size(pre))

(***************************************************************************)
(* The compile-time paths of count() and first_on side by side: ret maps   *)
(* each build to what it returns, on the bitset a for count() and on the   *)
(* block arg for first_on.                                                 *)
(***************************************************************************)

InitPaths ==
    /\ a \in Constructed(MaxBits)
    /\ b = NoBitset
    /\ pre = NoBitset
    /\ str = <<>>
    /\ op = "ctor"
    /\ arg = zero_block
    /\ ret = [build \in Builds |-> 0]

(* what one mutating call makes of v *)
MutatedOnce(v) ==
    {pop_back(v), flip_all(v), set_all(v), reset_all(v)}
    \cup {push_back(v, value) : value \in {x \in BOOLEAN : size(v) < MaxBits}}
    \cup {resize(v, nbits, value) : nbits \in 0..MaxBits, value \in BOOLEAN}
    \cup {shl_assign(v, shift) : shift \in 0..MaxBits}
    \cup {shr_assign(v, shift) : shift \in 0..MaxBits}

(* push_back, pop_back, resize, flip(), set(), reset(), <<= or >>= *)
MutateForPaths ==
    \E v \in MutatedOnce(a) :
        /\ a' = v
        /\ op' = "mutated"
        /\ arg' = zero_block
        /\ ret' = [build \in Builds |-> 0]
        /\ UNCHANGED <<b, pre, str>>

(* v.count() as each build computes it *)
CountOnEveryPath ==
    /\ op # "count"
    /\ ret' = [build \in Builds |-> count(a, build)]
    /\ arg' = zero_block
    /\ op' = "count"
    /\ UNCHANGED <<a, b, pre, str>>

(* first_on(block) as each build computes it, block # zero_block *)
FirstOnEveryPath ==
    /\ op # "first_on"
    /\ \E block \in 1..one_block :
           /\ arg' = block
           /\ ret' = [build \in Builds |-> first_on(block, build)]
           /\ op' = "first_on"
           /\ UNCHANGED <<a, b, pre, str>>

NextPaths == MutateForPaths \/ CountOnEveryPath \/ FirstOnEveryPath

SpecPaths == InitPaths /\ [][NextPaths]_vars

(* C29: in every state the bitset can be in, count() is the same number on
   the libpopcnt path over the whole buffer, on the builtin path that shifts
   the last block left by bits_per_block - extra_bits and on the portable
   path that counts the first extra_bits bits of the last block; and for
   every non-zero block the ctz intrinsic and the portable loop of first_on
   return the same index, that of the lowest set bit. *)
PathsAgree ==
    /\ op = "count" =>
           \A build \in Builds : ret[build] = ret["portable"]
    /\ op = "first_on" =>
           /\ \A build \in Builds : ret[build] = ret["portable"]
           /\ ret["portable"] < bits_per_block
           /\ BlockBit(arg, ret["portable"])
           /\ \A j \in 0..(ret["portable"] - 1) : ~BlockBit(arg, j)

(* count() of a non-aligned bitset of the largest size, with set
   bits in its first and in its last block, the lowest bit of the last
   block among them *)
PathsWitness ==
    /\ op = "count"
    /\ size(a) = MaxBits
    /\ extra_bits_number(a) > 0
    /\ BitOf(a, 0)
    /\ BitOf(a, size(a) - 1)
    /\ BitOf(a, size(a) - extra_bits_number(a))
    /\ ~BitOf(a, 1)
    /\ ret["libpopcnt"] >= 3
    /\ ret["builtin"] = ret["libpopcnt"]

(***************************************************************************)
(* The block indices the loops of apply_left_shift, apply_right_shift and  *)
(* operator< use.  Each loop is followed with its counter as an unsigned   *)
(* size_type; a loop stops at the first index that is not one of the       *)
(* blocks, where the behaviour of the program is no longer defined, and    *)
(* ends is FALSE for it.                                                   *)
(***************************************************************************)

Touched(indices, ends) == [touched |-> indices, ends |-> ends]

(* the access to the blocks indices of n blocks after what r holds *)
ThenTouch(r, n, indices) ==
    IF r.ends
    THEN Touched(r.touched \cup indices, indices \subseteq 0..(n - 1))
    ELSE r

(* the loop of apply_left_shift for bits_offset != 0 with the condition
   i >= blocks_shift of the other loop *)
RECURSIVE left_shift_bits_touched_inclusive(_, _, _, _)
left_shift_bits_touched_inclusive(n, i, blocks_shift, r) ==
    IF i >= blocks_shift /\ r.ends
    THEN left_shift_bits_touched_inclusive(n, ToSize(i - 1), blocks_shift,
             ThenTouch(r, n, {i, ToSize(i - blocks_shift), ToSize(i - blocks_shift - 1)}))
    ELSE r

(* for(i = m_blocks.size() - 1; i >= blocks_shift; --i)
       m_blocks[i] = m_blocks[i - blocks_shift] *)
RECURSIVE left_shift_blocks_touched(_, _, _, _)
left_shift_blocks_touched(n, i, blocks_shift, r) ==
    IF i >= blocks_shift /\ r.ends
    THEN left_shift_blocks_touched(n, ToSize(i - 1), blocks_shift,
             ThenTouch(r, n, {i, ToSize(i - blocks_shift)}))
    ELSE r

(* for(i = m_blocks.size() - 1; i > blocks_shift; --i)
       m_blocks[i] = m_blocks[i - blocks_shift] << ... | m_blocks[i - blocks_shift - 1] >> ... *)
RECURSIVE left_shift_bits_touched(_, _, _, _)
left_shift_bits_touched(n, i, blocks_shift, r) ==
    IF i > blocks_shift /\ r.ends
    THEN left_shift_bits_touched(n, ToSize(i - 1), blocks_shift,
             ThenTouch(r, n, {i, ToSize(i - blocks_shift), ToSize(i - blocks_shift - 1)}))
    ELSE r

(* apply_left_shift(shift) on n blocks: a loop, m_blocks[blocks_shift] and
   m_blocks[0] when bits_offset != 0, and std::fill on [0, blocks_shift) *)
apply_left_shift_touched(n, shift) ==
    LET blocks_shift == shift \div bits_per_block
        bits_offset == shift % bits_per_block
        loop == IF bits_offset = 0
                THEN left_shift_blocks_touched(n, ToSize(n - 1), blocks_shift,
                                               Touched({}, TRUE))
                ELSE ThenTouch(left_shift_bits_touched(n, ToSize(n - 1), blocks_shift,
                                                       Touched({}, TRUE)),
                               n, {blocks_shift, 0})
    IN  IF loop.ends /\ blocks_shift > n
        THEN Touched(loop.touched, FALSE)
        ELSE ThenTouch(loop, n, 0..(blocks_shift - 1))

(* for(i = 0; i <= last_block_to_shift; ++i)
       m_blocks[i] = m_blocks[i + blocks_shift] *)
RECURSIVE right_shift_blocks_touched(_, _, _, _, _)
right_shift_blocks_touched(n, i, last_block_to_shift, blocks_shift, r) ==
    IF i <= last_block_to_shift /\ r.ends
    THEN right_shift_blocks_touched(n, ToSize(i + 1), last_block_to_shift, blocks_shift,
             ThenTouch(r, n, {i, ToSize(i + blocks_shift)}))
    ELSE r

(* for(i = 0; i < last_block_to_shift; ++i)
       m_blocks[i] = m_blocks[i + blocks_shift] >> ... | m_blocks[i + blocks_shift + 1] << ... *)
RECURSIVE right_shift_bits_touched(_, _, _, _, _)
right_shift_bits_touched(n, i, last_block_to_shift, blocks_shift, r) ==
    IF i < last_block_to_shift /\ r.ends
    THEN right_shift_bits_touched(n, ToSize(i + 1), last_block_to_shift, blocks_shift,
             ThenTouch(r, n, {i, ToSize(i + blocks_shift), ToSize(i + blocks_shift + 1)}))
    ELSE r

(* apply_right_shift(shift) on n blocks: a loop, m_blocks[last_block_to_shift]
   and m_blocks[m_blocks.size() - 1] when bits_offset != 0, and std::fill on
   [last_block_to_shift + 1, m_blocks.size()) *)
apply_right_shift_touched(n, shift) ==
    LET blocks_shift == shift \div bits_per_block
        bits_offset == shift % bits_per_block
        last_block_to_shift == ToSize(n - blocks_shift - 1)
        loop == IF bits_offset = 0
                THEN right_shift_blocks_touched(n, 0, last_block_to_shift, blocks_shift,
                                                Touched({}, TRUE))
                ELSE ThenTouch(right_shift_bits_touched(n, 0, last_block_to_shift,
                                                        blocks_shift, Touched({}, TRUE)),
                               n, {last_block_to_shift, ToSize(n - 1)})
    IN  IF loop.ends /\ last_block_to_shift + 1 > n
        THEN Touched(loop.touched, FALSE)
        ELSE ThenTouch(loop, n, (last_block_to_shift + 1)..(n - 1))

(* operator< of bitsets of different sizes: what it touches of lhs,
   what it touches of rhs, and whether it came to a return *)
LessTouched(lhs_indices, rhs_indices, ends, returned) ==
    [lhs |-> lhs_indices, rhs |-> rhs_indices, ends |-> ends, returned |-> returned]

(* the access to m_blocks[i] of the bitsets named in sides *)
ThenCompare(r, lhs, rhs, sides, i) ==
    IF r.ends /\ ~r.returned
    THEN LET lhs_indices == IF "lhs" \in sides THEN {i} ELSE {}
             rhs_indices == IF "rhs" \in sides THEN {i} ELSE {}
         IN  LessTouched(r.lhs \cup lhs_indices, r.rhs \cup rhs_indices,
                         /\ lhs_indices \subseteq 0..(num_blocks(lhs) - 1)
                         /\ rhs_indices \subseteq 0..(num_blocks(rhs) - 1),
                         FALSE)
    ELSE r

(* for(i = longest_blocks_size - 1; i >= shortest_blocks_size; --i)
       if(longest_bitset.m_blocks[i] != block_type(0)) return rhs_longer; *)
RECURSIVE longest_has_high_bits_touched(_, _, _, _, _, _)
longest_has_high_bits_touched(lhs, rhs, rhs_longer, i, shortest_blocks_size, r) ==
    IF i >= shortest_blocks_size /\ r.ends /\ ~r.returned
    THEN LET side == IF rhs_longer THEN "rhs" ELSE "lhs"
             longest_bitset == IF rhs_longer THEN rhs ELSE lhs
             r1 == ThenCompare(r, lhs, rhs, {side}, i)
         IN  IF ~r1.ends THEN r1
             ELSE IF Block(longest_bitset, i) # 0
             THEN [r1 EXCEPT !.returned = TRUE]
             ELSE longest_has_high_bits_touched(lhs, rhs, rhs_longer, ToSize(i - 1),
                                                shortest_blocks_size, r1)
    ELSE r

(* for(i = shortest_blocks_size - 1; i > 0; --i)
       if(lhs.m_blocks[i] != rhs.m_blocks[i]) return ...; *)
RECURSIVE first_difference_touched(_, _, _, _)
first_difference_touched(lhs, rhs, i, r) ==
    IF i > 0 /\ r.ends /\ ~r.returned
    THEN LET r1 == ThenCompare(r, lhs, rhs, {"lhs", "rhs"}, i)
         IN  IF ~r1.ends THEN r1
             ELSE IF Block(lhs, i) # Block(rhs, i)
             THEN [r1 EXCEPT !.returned = TRUE]
             ELSE first_difference_touched(lhs, rhs, ToSize(i - 1), r1)
    ELSE r

(* operator< from the test of lhs_size == rhs_size on, for different sizes *)
op_less_touched(lhs, rhs) ==
    LET lhs_size == size(lhs)
        rhs_size == size(rhs)
        lhs_blocks_size == Len(lhs.m_blocks)
        rhs_blocks_size == Len(rhs.m_blocks)
        none_touched == LessTouched({}, {}, TRUE, FALSE)
    IN  IF lhs_size = 0 \/ rhs_size = 0
        THEN [none_touched EXCEPT !.returned = TRUE]
        ELSE
        LET rhs_longer == rhs_size > lhs_size
            longest_blocks_size == Max(lhs_blocks_size, rhs_blocks_size)
            shortest_blocks_size == Min(lhs_blocks_size, rhs_blocks_size)
            high == longest_has_high_bits_touched(lhs, rhs, rhs_longer,
                        ToSize(longest_blocks_size - 1), shortest_blocks_size, none_touched)
            low == first_difference_touched(lhs, rhs, ToSize(shortest_blocks_size - 1), high)
            last == ThenCompare(low, lhs, rhs, {"lhs", "rhs"}, 0)
        IN  IF last.ends THEN [last EXCEPT !.returned = TRUE] ELSE last

InitTouch ==
    /\ a \in Constructed(MaxBits)
    /\ b = NoBitset
    /\ pre = NoBitset
    /\ str = <<>>
    /\ op = "ctor"
    /\ arg = 0
    /\ ret = Touched({}, TRUE)

(* apply_left_shift(shift) as operator<<= calls it, 0 < shift < size() *)
LeftShiftTouches ==
    /\ op = "ctor"
    /\ \E shift \in 1..(size(a) - 1) :
           /\ ret' = apply_left_shift_touched(num_blocks(a), shift)
           /\ a' = apply_left_shift(a, shift)
           /\ pre' = a
           /\ arg' = shift
           /\ op' = "apply_left_shift"
           /\ UNCHANGED <<b, str>>

(* apply_right_shift(shift) as operator>>= calls it, 0 < shift < size() *)
RightShiftTouches ==
    /\ op = "ctor"
    /\ \E shift \in 1..(size(a) - 1) :
           /\ ret' = apply_right_shift_touched(num_blocks(a), shift)
           /\ a' = apply_right_shift(a, shift)
           /\ pre' = a
           /\ arg' = shift
           /\ op' = "apply_right_shift"
           /\ UNCHANGED <<b, str>>

(* a < rhs for an rhs of another size *)
LessTouches ==
    /\ op = "ctor"
    /\ \E rhs \in Constructed(MaxOrderBits) :
           /\ size(rhs) # size(a)
           /\ ret' = op_less_touched(a, rhs)
           /\ b' = rhs
           /\ pre' = a
           /\ op' = "less"
           /\ UNCHANGED <<a, str, arg>>

NextTouch == LeftShiftTouches \/ RightShiftTouches \/ LessTouches

SpecTouch == InitTouch /\ [][NextTouch]_vars

(* C30: for every bitset and every shift with 0 < shift < size(),
   apply_left_shift and apply_right_shift come to their end having used
   block indices in [0, num_blocks()) only, a shift by a multiple of the
   number of bits of a block and its loop "i >= blocks_shift" included; for
   every two non-empty bitsets of different sizes operator< comes to a
   return having used indices of existing blocks of each side only, its
   loop "i >= shortest_blocks_size" never wrapping. *)
LoopsStayInBlocks ==
    /\ op \in {"apply_left_shift", "apply_right_shift"} =>
           /\ ret.ends
           /\ ret.touched \subseteq 0..(num_blocks(pre) - 1)
    /\ op = "less" =>
           /\ ret.ends
           /\ ret.returned
           /\ ret.lhs \subseteq 0..(num_blocks(pre) - 1)
           /\ ret.rhs \subseteq 0..(num_blocks(b) - 1)

(* a left shift by a whole number of blocks of a bitset that has more
   blocks than that: the loop goes down to blocks_shift and every block is
   used *)
LoopsWitness ==
    /\ op = "apply_left_shift"
    /\ arg % bits_per_block = 0
    /\ arg >= bits_per_block
    /\ num_blocks(pre) > arg \div bits_per_block + 1
    /\ ret.ends
    /\ ret.touched = 0..(num_blocks(pre) - 1)
    /\ BitOf(pre, 0)
    /\ BitOf(a, arg)

====
